---- MODULE Spec2Model ----
(***************************************************************************)
(* The mapping handlers of the Stellar access-control indexer              *)
(* (src/src/mappings/mappingHandlers.ts, src/src/mappings/validation.ts)   *)
(* as a state machine over the entity store.                               *)
(*                                                                         *)
(* Strings are sequences of one-character strings, so that template        *)
(* literals are concatenations, startsWith looks at the first character    *)
(* and the symbol regex looks at every character.  A JavaScript value is a *)
(* record [typeof |-> its type, val |-> its payload].                      *)
(***************************************************************************)
EXTENDS Integers, Sequences, FiniteSets, TLC

(* ------------------------------------------------------------------ *)
(* JavaScript values                                                  *)
(* ------------------------------------------------------------------ *)

\* the value undefined
Undefined == [typeof |-> "undefined", val |-> <<>>]

\* the value null (typeof null is "object", but it is falsy)
Null == [typeof |-> "null", val |-> <<>>]

\* a string value
Str(s) == [typeof |-> "string", val |-> s]

\* a number: <<integer part, tenths>>, so that 1.5 is <<1, 5>>
Num(n) == [typeof |-> "number", val |-> <<n, 0>>]

\* a number that is not an integer
Frac(n, d) == [typeof |-> "number", val |-> <<n, d>>]

\* a bigint
Big(n) == [typeof |-> "bigint", val |-> <<n, 0>>]

\* a plain object: a function from its keys to values
Obj(f) == [typeof |-> "object", val |-> f]

\* an array
Arr(a) == [typeof |-> "array", val |-> a]

\* Number.isInteger
IsInteger(x) == x.typeof = "number" /\ x.val[2] = 0

\* typeof x === 'object' (null and arrays included)
TypeofObject(x) == x.typeof \in {"object", "array", "null"}

\* JavaScript truthiness of the values the handlers test
Truthy(x) ==
    CASE x.typeof \in {"undefined", "null"} -> FALSE
      [] x.typeof = "string" -> x.val # <<>>
      [] x.typeof = "number" -> x.val # <<0, 0>>
      [] OTHER -> TRUE

\* 'key' in x, for a value x whose typeof is 'object' and that is not null
HasKey(x, key) == x.typeof = "object" /\ key \in DOMAIN x.val

(* ------------------------------------------------------------------ *)
(* Tagged values (ScVal) and their decoding                           *)
(* ------------------------------------------------------------------ *)

\* an absent field of the raw event (event.value undefined, a missing topic)
NoScVal == [switch |-> "absent", arm |-> <<>>]

\* something that is present but is no decodable tagged value
JunkScVal == [switch |-> "junk", arm |-> <<>>]

ScvSymbol(s) == [switch |-> "symbol", arm |-> s]

ScvString(s) == [switch |-> "string", arm |-> s]

ScvAddress(a) == [switch |-> "address", arm |-> a]

ScvU32(n) == [switch |-> "u32", arm |-> n]

ScvU64(n) == [switch |-> "u64", arm |-> n]

ScvVoid == [switch |-> "void", arm |-> <<>>]

\* a map: a function from its (symbol) keys to tagged values
ScvMap(f) == [switch |-> "map", arm |-> f]

\* a vector: a sequence of tagged values
ScvVec(a) == [switch |-> "vec", arm |-> a]

RECURSIVE Decodable(_)
\* scValToNative returns (does not throw) on this value
Decodable(sv) ==
    CASE sv.switch \in {"absent", "junk"} -> FALSE
      [] sv.switch = "map" -> \A k \in DOMAIN sv.arm : Decodable(sv.arm[k])
      [] sv.switch = "vec" -> \A i \in DOMAIN sv.arm : Decodable(sv.arm[i])
      [] OTHER -> TRUE

RECURSIVE scValToNative(_)
\* the decoder of @stellar/stellar-base, on a decodable value
scValToNative(sv) ==
    CASE sv.switch \in {"symbol", "string", "address"} -> Str(sv.arm)
      [] sv.switch = "u32" -> Num(sv.arm)
      [] sv.switch = "u64" -> Big(sv.arm)
      [] sv.switch = "void" -> Null
      [] sv.switch = "map" -> Obj([k \in DOMAIN sv.arm |-> scValToNative(sv.arm[k])])
      [] sv.switch = "vec" -> Arr([i \in DOMAIN sv.arm |-> scValToNative(sv.arm[i])])

\* an exception that leaves a function, in the place of its value
Thrown == [typeof |-> "thrown", val |-> <<>>]

\* the decoder called without the try
scValToNativeOrThrow(sv) ==
    IF Decodable(sv) THEN scValToNative(sv) ELSE Thrown

RECURSIVE decodeKeepingSiblings(_)
\* a decoder that catches inside each element
decodeKeepingSiblings(sv) ==
    CASE sv.switch \in {"absent", "junk"} -> Undefined
      [] sv.switch = "map" -> Obj([k \in DOMAIN sv.arm |-> decodeKeepingSiblings(sv.arm[k])])
      [] sv.switch = "vec" -> Arr([i \in DOMAIN sv.arm |-> decodeKeepingSiblings(sv.arm[i])])
      [] OTHER -> scValToNative(sv)

\* the decoder with the failure of an element confined to that element
safeScValToNativeKeepingSiblings(sv) ==
    decodeKeepingSiblings(sv)

\* try { return scValToNative(scVal) } catch { return undefined }
safeScValToNative(sv) ==
    IF Decodable(sv) THEN scValToNative(sv) ELSE Undefined

(* ------------------------------------------------------------------ *)
(* Validation                                                         *)
(* ------------------------------------------------------------------ *)

\* StrKey: the base-32 alphabet (RFC 4648), each character five bits
Base32Index ==
    ("A" :> 0) @@ ("B" :> 1) @@ ("C" :> 2) @@ ("D" :> 3) @@ ("E" :> 4) @@ ("F" :> 5) @@ ("G" :> 6)
    @@     ("H" :> 7) @@ ("I" :> 8) @@ ("J" :> 9) @@ ("K" :> 10) @@ ("L" :> 11) @@ ("M" :> 12) @@ ("N" :> 13)
    @@     ("O" :> 14) @@ ("P" :> 15) @@ ("Q" :> 16) @@ ("R" :> 17) @@ ("S" :> 18) @@ ("T" :> 19) @@ ("U" :> 20)
    @@     ("V" :> 21) @@ ("W" :> 22) @@ ("X" :> 23) @@ ("Y" :> 24) @@ ("Z" :> 25) @@ ("2" :> 26) @@ ("3" :> 27)
    @@     ("4" :> 28) @@ ("5" :> 29) @@ ("6" :> 30) @@ ("7" :> 31)

InBase32(s) == \A i \in 1..Len(s) : s[i] \in DOMAIN Base32Index

\* bit j (the first is 1) of the bits the characters of s stand for
KeyBit(s, j) == (Base32Index[s[((j - 1) \div 5) + 1]] \div 2^(4 - ((j - 1) % 5))) % 2

RECURSIVE BitsValue(_, _, _, _)
\* the number written by the bits i..n of s, after the bits in acc
BitsValue(s, i, n, acc) ==
    IF i > n THEN acc
    ELSE IF i = n THEN 2 * acc + KeyBit(s, i)
    ELSE BitsValue(s, ((i + n) \div 2) + 1, n, BitsValue(s, i, (i + n) \div 2, acc))

\* x with bit k turned over
FlipBit(x, k) == IF (x \div 2^k) % 2 = 1 THEN x - 2^k ELSE x + 2^k

\* one step of the checksum: the register shifted by one bit, and XORed
\* with 0x1021 (the polynomial of CRC-16/XMODEM: bits 12, 5 and 0) when the
\* bit shifted out and the bit of the message differ
Crc16Step(crc, bit) ==
    IF (crc \div 32768 + bit) % 2 = 1
    THEN FlipBit(FlipBit(FlipBit((crc % 32768) * 2, 0), 5), 12)
    ELSE (crc % 32768) * 2

RECURSIVE Crc16(_, _, _, _)
\* CRC-16/XMODEM over the bits i..n of s, carried on from crc (the register
\* is read first, so that the bits before i are done when those from i start)
Crc16(s, i, n, crc) ==
    IF crc < 0 \/ i > n THEN crc
    ELSE IF i = n THEN Crc16Step(crc, KeyBit(s, i))
    ELSE Crc16(s, ((i + n) \div 2) + 1, n, Crc16(s, i, (i + n) \div 2, crc))

\* decodeCheck: 56 characters of the alphabet (1 version byte, 32 bytes of
\* payload, 2 of checksum), the version byte asked for, and the last two
\* bytes the checksum, low byte first, of the 33 bytes before them
StrKeyDecodeCheck(s, versionByte) ==
    /\ Len(s) = 56
    /\ InBase32(s)
    /\ BitsValue(s, 1, 8, 0) = versionByte
    /\ Crc16(s, 1, 264, 0) = BitsValue(s, 273, 280, 0) * 256 + BitsValue(s, 265, 272, 0)

\* the account keys and contract identifiers of validation.test.ts
G1 ==
    <<"G", "A", "T", "J", "O", "H", "D", "T", "6", "6", "J", "L", "2", "N", "L", "6", "D",
      "2", "R", "R", "W", "I", "H", "U", "X", "2", "Y", "T", "T", "6", "P", "D", "H", "4",
      "5", "Q", "7", "B", "4", "Y", "S", "P", "W", "E", "S", "Y", "4", "T", "F", "W", "M",
      "A", "U", "K", "T", "T">>

G2 ==
    <<"G", "D", "G", "I", "6", "U", "J", "H", "E", "W", "G", "B", "Z", "3", "X", "Y", "A",
      "D", "M", "I", "7", "5", "D", "K", "M", "7", "E", "M", "G", "S", "L", "7", "M", "4",
      "J", "T", "X", "3", "S", "5", "2", "C", "M", "V", "F", "U", "L", "4", "J", "X", "M",
      "N", "M", "K", "Q", "O">>

G3 ==
    <<"G", "B", "Z", "X", "N", "7", "P", "I", "R", "Z", "G", "N", "M", "H", "G", "A", "7",
      "M", "U", "U", "U", "F", "4", "G", "W", "P", "Y", "5", "A", "Y", "P", "V", "6", "L",
      "Y", "4", "U", "V", "2", "G", "L", "6", "V", "J", "G", "I", "Q", "R", "X", "F", "D",
      "N", "M", "A", "D", "I">>

\* an account key with a wrong checksum
BadG ==
    <<"G", "A", "T", "J", "O", "H", "D", "T", "6", "6", "J", "L", "2", "N", "L", "6", "D",
      "2", "R", "R", "W", "I", "H", "U", "X", "2", "Y", "T", "T", "6", "P", "D", "H", "4",
      "5", "Q", "7", "B", "4", "Y", "S", "P", "W", "E", "S", "Y", "4", "T", "F", "W", "M",
      "A", "U", "K", "T", "A">>

C1 ==
    <<"C", "A", "N", "M", "3", "Y", "2", "G", "V", "G", "H", "6", "A", "C", "S", "H", "U",
      "O", "R", "Z", "5", "6", "Z", "F", "Z", "2", "F", "S", "F", "X", "6", "X", "E", "W",
      "P", "J", "Y", "W", "7", "B", "N", "Z", "V", "A", "X", "K", "S", "E", "Q", "M", "B",
      "T", "D", "W", "D", "2">>

C2 ==
    <<"C", "B", "F", "F", "A", "S", "Z", "Y", "2", "O", "I", "H", "U", "B", "S", "K", "Y",
      "P", "F", "Y", "V", "E", "Q", "K", "L", "4", "6", "G", "I", "Z", "4", "K", "D", "J",
      "U", "Z", "B", "T", "E", "C", "3", "I", "J", "S", "B", "3", "U", "S", "Q", "V", "Z",
      "E", "Z", "F", "V", "C">>

\* a contract identifier with a wrong checksum
BadC ==
    <<"C", "A", "N", "M", "3", "Y", "2", "G", "V", "G", "H", "6", "A", "C", "S", "H", "U",
      "O", "R", "Z", "5", "6", "Z", "F", "Z", "2", "F", "S", "F", "X", "6", "X", "E", "W",
      "P", "J", "Y", "W", "7", "B", "N", "Z", "V", "A", "X", "K", "S", "E", "Q", "M", "B",
      "T", "D", "W", "D", "3">>

\* the keys the handlers meet in the runs
RunKeys == {G1, G2, G3, BadG, C1, C2, BadC}

\* the keys of the runs StrKey.isValidEd25519PublicKey accepts
ValidEd25519PublicKeys == {s \in RunKeys : StrKeyDecodeCheck(s, 48)}

\* the keys of the runs StrKey.isValidContract accepts
ValidContracts == {s \in RunKeys : StrKeyDecodeCheck(s, 16)}

\* the version byte of an account key is 6 << 3 (a key of the runs is
\* decoded once)
StrKeyIsValidEd25519PublicKey(s) ==
    IF s \in RunKeys
    THEN s \in ValidEd25519PublicKeys
    ELSE StrKeyDecodeCheck(s, 48)

\* the version byte of a contract is 2 << 3
StrKeyIsValidContract(s) ==
    IF s \in RunKeys
    THEN s \in ValidContracts
    ELSE StrKeyDecodeCheck(s, 16)

startsWith(s, c) == Len(s) >= 1 /\ s[1] = c

\* the check by the first character only
isValidStellarAddressByPrefix(value) ==
    IF value.typeof # "string" THEN FALSE
    ELSE startsWith(value.val, "G") \/ startsWith(value.val, "C")

\* the check by the first character and the length only
isValidStellarAddressByLength(value) ==
    IF value.typeof # "string" THEN FALSE
    ELSE /\ startsWith(value.val, "G") \/ startsWith(value.val, "C")
         /\ Len(value.val) = 56

isValidStellarAddress(value) ==
    IF value.typeof # "string" THEN FALSE
    ELSE IF startsWith(value.val, "G") THEN StrKeyIsValidEd25519PublicKey(value.val)
    ELSE IF startsWith(value.val, "C") THEN StrKeyIsValidContract(value.val)
    ELSE FALSE

\* the characters of the class [a-zA-Z0-9_]
SymbolChars ==
    {"a", "b", "c", "d", "e", "f", "g", "h", "i", "j", "k", "l", "m",
     "n", "o", "p", "q", "r", "s", "t", "u", "v", "w", "x", "y", "z",
     "A", "B", "C", "D", "E", "F", "G", "H", "I", "J", "K", "L", "M",
     "N", "O", "P", "Q", "R", "S", "T", "U", "V", "W", "X", "Y", "Z",
     "0", "1", "2", "3", "4", "5", "6", "7", "8", "9", "_"}

\* the longest symbol isValidRoleSymbol accepts
MaxSymbolLen == 32

\* the check with the longest length left out
isValidRoleSymbolBelowMax(value) ==
    IF value.typeof # "string" \/ Len(value.val) = 0 \/ Len(value.val) >= MaxSymbolLen
    THEN FALSE
    ELSE \A i \in 1..Len(value.val) : value.val[i] \in SymbolChars

isValidRoleSymbol(value) ==
    IF value.typeof # "string" \/ Len(value.val) = 0 \/ Len(value.val) > MaxSymbolLen
    THEN FALSE
    ELSE \A i \in 1..Len(value.val) : value.val[i] \in SymbolChars

\* the contract address returned as it is read, without the address check
getContractAddressUnchecked(event) ==
    IF event.contractId.k = "ok" /\ Truthy(Str(event.contractId.addr))
    THEN Str(event.contractId.addr)
    ELSE Undefined

\* event.contractId?.contractId().toString(), checked; undefined on a throw
getContractAddress(event) ==
    IF event.contractId.k = "ok"
       /\ Truthy(Str(event.contractId.addr))
       /\ isValidStellarAddress(Str(event.contractId.addr))
    THEN Str(event.contractId.addr)
    ELSE Undefined

hasValidLedgerInfo(event) ==
    event.ledger.present /\ event.ledger.sequence.typeof = "number"

(* ------------------------------------------------------------------ *)
(* Raw events as the host hands them to a handler                     *)
(* ------------------------------------------------------------------ *)

\* event.topic.length, when event.topic is there
TopicLength(event) == Len(event.topic.list)

\* event.topic[i] (zero-based, as in the source)
Topic(event, i) == event.topic.list[i + 1]

\* the digits a ledger close time is written with
DigitValue(c) ==
    CASE c = "0" -> 0 [] c = "1" -> 1 [] c = "2" -> 2 [] c = "3" -> 3
      [] c = "4" -> 4 [] c = "5" -> 5 [] c = "6" -> 6 [] c = "7" -> 7
      [] c = "8" -> 8 [] c = "9" -> 9

Digits == {"0", "1", "2", "3", "4", "5", "6", "7", "8", "9"}

\* the time value of an Invalid Date (NaN)
InvalidDate == -1

\* new Date(): the time of the clock of the machine, whatever x is
NewDateOfTheClock(x) == DigitValue("9")

\* new Date(x): the time value of the close time "T<digit>", NaN otherwise
NewDate(x) ==
    IF x.typeof = "string" /\ Len(x.val) = 2 /\ x.val[1] = "T" /\ x.val[2] \in Digits
    THEN DigitValue(x.val[2])
    ELSE InvalidDate

\* event.transaction?.hash || 'unknown'
TxHash(event) ==
    IF event.transaction.present /\ event.transaction.hash # <<>>
    THEN event.transaction.hash
    ELSE <<"u", "n", "k", "n", "o", "w", "n">>

(* ------------------------------------------------------------------ *)
(* The entity store                                                   *)
(* ------------------------------------------------------------------ *)

VARIABLES
    accessEvents,        \* AccessControlEvent entities by id
    roleMemberships,     \* RoleMembership entities by id
    contractOwnerships,  \* ContractOwnership entities by id
    contracts,           \* Contract entities by id
    last,                \* the last handler call: handler, event, outcome, and whether
                         \* it repeats the call before it or any accepted call
    lastRoleEvent,       \* history: last accepted grant/revoke per (contract, role, account)
    lastOwnershipEvent,  \* history: last accepted completed/renounced per contract
    applied,             \* history: the accepted (handler, event) calls
    delivered,           \* history: all (handler, event) calls
    steps,               \* handler calls so far
    probe,               \* the call of a validation function: fn, input, output
    call,                \* the handler call under way, store operation by store operation
    replay,              \* the accepted calls in their order, and the replay of a suffix of them
    mirror,              \* a second run of the same events, two of them exchanged
    running              \* two handler calls under way at once, each with what it has read

vars ==
    <<accessEvents, roleMemberships, contractOwnerships, contracts,
      last, lastRoleEvent, lastOwnershipEvent, applied, delivered, steps, probe, call,
      replay, mirror, running>>

\* the entity tables
storeVars == <<accessEvents, roleMemberships, contractOwnerships, contracts>>

\* the runs a run is compared with
comparisonVars == <<replay, mirror, running>>

\* the history of the handler calls
historyVars == <<last, lastRoleEvent, lastOwnershipEvent, applied, delivered, steps>>

\* a table with no entity
EmptyTable == [k \in {} |-> k]

\* a save that puts the entity in the place of the whole table
SaveAlone(table, entity) == (entity.id :> entity)

\* an insert that leaves an entity already stored under the id as it is
SaveUnlessPresent(table, entity) == table @@ (entity.id :> entity)

\* entity.save(): create or replace by id
Save(table, entity) == (entity.id :> entity) @@ table

\* a removal that is never carried out
RemoveNothing(table, id) == table

\* store.remove(name, id) / Entity.remove(id)
\* a removal whose filter matches every record of the table
RemoveAll(table, id) == EmptyTable

Remove(table, id) == [k \in DOMAIN table \ {id} |-> table[k]]

\* the four tables, as the handlers see them
Store ==
    [accessEvents |-> accessEvents,
     roleMemberships |-> roleMemberships,
     contractOwnerships |-> contractOwnerships,
     contracts |-> contracts]

\* what a handler call comes to
Declined(st) == [outcome |-> "declined", store |-> st]

Threw(st) == [outcome |-> "threw", store |-> st]

Accepted(st) == [outcome |-> "accepted", store |-> st]

\* the canonical event created without its admin
AccessControlEventWithoutAdmin(eventId, contractAddress, type, role, account, admin, previousAdminRole, newAdminRole, event) ==
    [id |-> eventId,
     contract |-> contractAddress.val,
     role |-> role,
     account |-> account,
     admin |-> Undefined,
     previousAdminRole |-> previousAdminRole,
     newAdminRole |-> newAdminRole,
     type |-> type,
     blockHeight |-> Big(event.ledger.sequence.val[1]),
     timestamp |-> NewDate(event.ledgerClosedAt),
     txHash |-> TxHash(event),
     ledger |-> event.ledger.sequence]

\* the canonical event created with the two parties in each other's place
AccessControlEventPartiesSwapped(eventId, contractAddress, type, role, account, admin, previousAdminRole, newAdminRole, event) ==
    [id |-> eventId,
     contract |-> contractAddress.val,
     role |-> role,
     account |-> admin,
     admin |-> account,
     previousAdminRole |-> previousAdminRole,
     newAdminRole |-> newAdminRole,
     type |-> type,
     blockHeight |-> Big(event.ledger.sequence.val[1]),
     timestamp |-> NewDate(event.ledgerClosedAt),
     txHash |-> TxHash(event),
     ledger |-> event.ledger.sequence]

\* AccessControlEvent.create({...}) with the fields every handler fills alike
AccessControlEvent(eventId, contractAddress, type, role, account, admin, previousAdminRole, newAdminRole, event) ==
    [id |-> eventId,
     contract |-> contractAddress.val,
     role |-> role,
     account |-> account,
     admin |-> admin,
     previousAdminRole |-> previousAdminRole,
     newAdminRole |-> newAdminRole,
     type |-> type,
     blockHeight |-> Big(event.ledger.sequence.val[1]),
     timestamp |-> NewDate(event.ledgerClosedAt),
     txHash |-> TxHash(event),
     ledger |-> event.ledger.sequence]

\* BigInt(event.ledger.sequence) throws a RangeError on a non-integer number
BigIntThrows(event) == ~IsInteger(event.ledger.sequence)

\* the comparison of the capability turned around: a contract seen again with
\* the capability it already has is taken for a combined one
updateContractMetadataWideningOnSameType(table, contractAddress, type, lastActivity) ==
    IF contractAddress.val \notin DOMAIN table
    THEN Save(table, [id |-> contractAddress.val,
                      address |-> contractAddress.val,
                      type |-> type,
                      lastActivityAt |-> lastActivity])
    ELSE LET contract == table[contractAddress.val]
             widened ==
                 IF type = contract.type /\ type \in {"ACCESS_CONTROL", "OWNABLE"}
                 THEN "ACCESS_CONTROL_OWNABLE"
                 ELSE contract.type
         IN  Save(table, [contract EXCEPT !.lastActivityAt = lastActivity,
                                          !.type = widened])

\* the capability of the latest event written over the type
updateContractMetadataOverwritingType(table, contractAddress, type, lastActivity) ==
    Save(table, [id |-> contractAddress.val,
                 address |-> contractAddress.val,
                 type |-> type,
                 lastActivityAt |-> lastActivity])

\* Contract.get / Contract.create / contract.save
updateContractMetadata(table, contractAddress, type, lastActivity) ==
    IF contractAddress.val \notin DOMAIN table
    THEN Save(table, [id |-> contractAddress.val,
                      address |-> contractAddress.val,
                      type |-> type,
                      lastActivityAt |-> lastActivity])
    ELSE LET contract == table[contractAddress.val]
             widened ==
                 IF type # contract.type /\ type \in {"ACCESS_CONTROL", "OWNABLE"}
                 THEN "ACCESS_CONTROL_OWNABLE"
                 ELSE contract.type
         IN  Save(table, [contract EXCEPT !.lastActivityAt = lastActivity,
                                          !.type = widened])

\* if (event.value): the payload is there
ValuePresent(event) == event.value.switch # "absent"

\* the caller taken as it is decoded, without the address check
SenderUnvalidated(event) ==
    IF ValuePresent(event)
    THEN LET decodedValue == safeScValToNative(event.value)
         IN  IF Truthy(decodedValue)
                /\ TypeofObject(decodedValue)
                /\ HasKey(decodedValue, <<"c", "a", "l", "l", "e", "r">>)
             THEN decodedValue.val[<<"c", "a", "l", "l", "e", "r">>]
             ELSE Undefined
    ELSE Undefined

\* the optional caller of role_granted / role_revoked
Sender(event) ==
    IF ValuePresent(event)
    THEN LET decodedValue == safeScValToNative(event.value)
         IN  IF Truthy(decodedValue)
                /\ TypeofObject(decodedValue)
                /\ HasKey(decodedValue, <<"c", "a", "l", "l", "e", "r">>)
                /\ isValidStellarAddress(decodedValue.val[<<"c", "a", "l", "l", "e", "r">>])
             THEN decodedValue.val[<<"c", "a", "l", "l", "e", "r">>]
             ELSE Undefined
    ELSE Undefined

\* a membership key that leaves the account out
MembershipIdWithoutAccount(contractAddress, role, account) ==
    contractAddress.val \o <<"-">> \o role.val

\* `${contractAddress}-${role}-${account}`
MembershipId(contractAddress, role, account) ==
    contractAddress.val \o <<"-">> \o role.val \o <<"-">> \o account.val

handleRoleGranted(st, event) ==
    IF ~hasValidLedgerInfo(event) THEN Declined(st)
    ELSE IF ~event.topic.present THEN Threw(st)
    ELSE IF TopicLength(event) # 3 THEN Declined(st)
    ELSE LET contractAddress == getContractAddress(event) IN
    IF ~Truthy(contractAddress) THEN Declined(st)
    ELSE LET role == safeScValToNative(Topic(event, 1))
             account == safeScValToNative(Topic(event, 2)) IN
    IF ~isValidRoleSymbol(role) \/ ~isValidStellarAddress(account) THEN Declined(st)
    ELSE LET sender == Sender(event) IN
    IF BigIntThrows(event) THEN Threw(st)
    ELSE LET accessEvent ==
                 AccessControlEvent(event.id \o <<"-", "g", "r", "a", "n", "t", "e", "d">>,
                                    contractAddress, "ROLE_GRANTED", role, account, sender,
                                    Undefined, Undefined, event)
             membership ==
                 [id |-> MembershipId(contractAddress, role, account),
                  contract |-> contractAddress.val,
                  role |-> role.val,
                  account |-> account.val,
                  grantedAt |-> NewDate(event.ledgerClosedAt),
                  grantedBy |-> sender,
                  txHash |-> TxHash(event)]
         IN  Accepted([st EXCEPT
                 !.contracts = updateContractMetadata(@, contractAddress, "ACCESS_CONTROL",
                                                      NewDate(event.ledgerClosedAt)),
                 !.accessEvents = Save(@, accessEvent),
                 !.roleMemberships = Save(@, membership)])

handleRoleRevoked(st, event) ==
    IF ~hasValidLedgerInfo(event) THEN Declined(st)
    ELSE IF ~event.topic.present THEN Threw(st)
    ELSE IF TopicLength(event) # 3 THEN Declined(st)
    ELSE LET contractAddress == getContractAddress(event) IN
    IF ~Truthy(contractAddress) THEN Declined(st)
    ELSE LET role == safeScValToNative(Topic(event, 1))
             account == safeScValToNative(Topic(event, 2)) IN
    IF ~isValidRoleSymbol(role) \/ ~isValidStellarAddress(account) THEN Declined(st)
    ELSE LET sender == Sender(event) IN
    IF BigIntThrows(event) THEN Threw(st)
    ELSE LET accessEvent ==
                 AccessControlEvent(event.id \o <<"-", "r", "e", "v", "o", "k", "e", "d">>,
                                    contractAddress, "ROLE_REVOKED", role, account, sender,
                                    Undefined, Undefined, event)
         IN  Accepted([st EXCEPT
                 !.roleMemberships = Remove(@, MembershipId(contractAddress, role, account)),
                 !.contracts = updateContractMetadata(@, contractAddress, "ACCESS_CONTROL",
                                                      NewDate(event.ledgerClosedAt)),
                 !.accessEvents = Save(@, accessEvent)])

\* !eventData || typeof eventData !== 'object' || !(key in eventData), for each key
LacksKeys(eventData, keys) ==
    \/ ~Truthy(eventData)
    \/ ~TypeofObject(eventData)
    \/ \E key \in keys : ~HasKey(eventData, key)

\* the handler without the check that live_until_ledger is a number
handleAdminTransferInitiatedAnyLedger(st, event) ==
    IF ~hasValidLedgerInfo(event) THEN Declined(st)
    ELSE IF ~event.topic.present THEN Threw(st)
    ELSE IF TopicLength(event) # 2 THEN Declined(st)
    ELSE LET contractAddress == getContractAddress(event) IN
    IF ~Truthy(contractAddress) THEN Declined(st)
    ELSE LET currentAdmin == safeScValToNative(Topic(event, 1)) IN
    IF ~isValidStellarAddress(currentAdmin) THEN Declined(st)
    ELSE LET eventData == safeScValToNative(event.value) IN
    IF LacksKeys(eventData, {<<"n", "e", "w", "_", "a", "d", "m", "i", "n">>,
                             <<"l", "i", "v", "e", "_", "u", "n", "t", "i", "l", "_", "l", "e", "d", "g", "e", "r">>})
    THEN Declined(st)
    ELSE LET newAdmin == eventData.val[<<"n", "e", "w", "_", "a", "d", "m", "i", "n">>] IN
    IF ~isValidStellarAddress(newAdmin) THEN Declined(st)
    ELSE IF BigIntThrows(event) THEN Threw(st)
    ELSE LET accessEvent ==
                 AccessControlEvent(event.id \o <<"-", "a", "d", "m", "i", "n", "-", "i", "n", "i", "t">>,
                                    contractAddress, "ADMIN_TRANSFER_INITIATED", Undefined,
                                    newAdmin, currentAdmin, Undefined, Undefined, event)
         IN  Accepted([st EXCEPT !.accessEvents = Save(@, accessEvent)])

handleAdminTransferInitiated(st, event) ==
    IF ~hasValidLedgerInfo(event) THEN Declined(st)
    ELSE IF ~event.topic.present THEN Threw(st)
    ELSE IF TopicLength(event) # 2 THEN Declined(st)
    ELSE LET contractAddress == getContractAddress(event) IN
    IF ~Truthy(contractAddress) THEN Declined(st)
    ELSE LET currentAdmin == safeScValToNative(Topic(event, 1)) IN
    IF ~isValidStellarAddress(currentAdmin) THEN Declined(st)
    ELSE LET eventData == safeScValToNative(event.value) IN
    IF LacksKeys(eventData, {<<"n", "e", "w", "_", "a", "d", "m", "i", "n">>,
                             <<"l", "i", "v", "e", "_", "u", "n", "t", "i", "l", "_", "l", "e", "d", "g", "e", "r">>})
    THEN Declined(st)
    ELSE LET newAdmin == eventData.val[<<"n", "e", "w", "_", "a", "d", "m", "i", "n">>]
             liveUntilLedger == eventData.val[<<"l", "i", "v", "e", "_", "u", "n", "t", "i", "l", "_", "l", "e", "d", "g", "e", "r">>] IN
    IF ~isValidStellarAddress(newAdmin) THEN Declined(st)
    ELSE IF liveUntilLedger.typeof # "number" THEN Declined(st)
    ELSE IF BigIntThrows(event) THEN Threw(st)
    ELSE LET accessEvent ==
                 AccessControlEvent(event.id \o <<"-", "a", "d", "m", "i", "n", "-", "i", "n", "i", "t">>,
                                    contractAddress, "ADMIN_TRANSFER_INITIATED", Undefined,
                                    newAdmin, currentAdmin, Undefined, Undefined, event)
         IN  Accepted([st EXCEPT !.accessEvents = Save(@, accessEvent)])

handleAdminTransferCompleted(st, event) ==
    IF ~hasValidLedgerInfo(event) THEN Declined(st)
    ELSE IF ~event.topic.present THEN Threw(st)
    ELSE IF TopicLength(event) # 2 THEN Declined(st)
    ELSE LET contractAddress == getContractAddress(event) IN
    IF ~Truthy(contractAddress) THEN Declined(st)
    ELSE LET newAdmin == safeScValToNative(Topic(event, 1)) IN
    IF ~isValidStellarAddress(newAdmin) THEN Declined(st)
    ELSE LET eventData == safeScValToNative(event.value) IN
    IF LacksKeys(eventData, {<<"p", "r", "e", "v", "i", "o", "u", "s", "_", "a", "d", "m", "i", "n">>})
    THEN Declined(st)
    ELSE LET previousAdmin == eventData.val[<<"p", "r", "e", "v", "i", "o", "u", "s", "_", "a", "d", "m", "i", "n">>] IN
    IF ~isValidStellarAddress(previousAdmin) THEN Declined(st)
    ELSE IF BigIntThrows(event) THEN Threw(st)
    ELSE LET accessEvent ==
                 AccessControlEvent(event.id \o <<"-", "a", "d", "m", "i", "n", "-", "c", "o", "m", "p", "l", "e", "t", "e">>,
                                    contractAddress, "ADMIN_TRANSFER_COMPLETED", Undefined,
                                    newAdmin, previousAdmin, Undefined, Undefined, event)
         IN  Accepted([st EXCEPT
                 !.contracts = updateContractMetadata(@, contractAddress, "ACCESS_CONTROL",
                                                      NewDate(event.ledgerClosedAt)),
                 !.accessEvents = Save(@, accessEvent)])

handleOwnershipTransferStarted(st, event) ==
    IF ~hasValidLedgerInfo(event) THEN Declined(st)
    ELSE IF ~event.topic.present THEN Threw(st)
    ELSE IF TopicLength(event) # 1 THEN Declined(st)
    ELSE LET contractAddress == getContractAddress(event) IN
    IF ~Truthy(contractAddress) THEN Declined(st)
    ELSE LET eventData == safeScValToNative(event.value) IN
    IF ~Truthy(eventData) \/ ~TypeofObject(eventData) \/ eventData.typeof = "array"
    THEN Declined(st)
    ELSE IF ~HasKey(eventData, <<"o", "l", "d", "_", "o", "w", "n", "e", "r">>)
            \/ ~HasKey(eventData, <<"n", "e", "w", "_", "o", "w", "n", "e", "r">>)
    THEN Declined(st)
    ELSE LET oldOwner == eventData.val[<<"o", "l", "d", "_", "o", "w", "n", "e", "r">>]
             newOwner == eventData.val[<<"n", "e", "w", "_", "o", "w", "n", "e", "r">>] IN
    IF ~isValidStellarAddress(oldOwner) \/ ~isValidStellarAddress(newOwner)
    THEN Declined(st)
    ELSE IF BigIntThrows(event) THEN Threw(st)
    ELSE LET accessEvent ==
                 AccessControlEvent(event.id \o <<"-", "o", "w", "n", "e", "r", "s", "h", "i", "p", "-", "s", "t", "a", "r", "t">>,
                                    contractAddress, "OWNERSHIP_TRANSFER_STARTED", Undefined,
                                    newOwner, oldOwner, Undefined, Undefined, event)
         IN  Accepted([st EXCEPT !.accessEvents = Save(@, accessEvent)])

\* the handler without its check of the number of topics
handleOwnershipTransferCompletedAnyTopics(st, event) ==
    IF ~hasValidLedgerInfo(event) THEN Declined(st)
    ELSE IF ~event.topic.present THEN Threw(st)
    ELSE LET contractAddress == getContractAddress(event) IN
    IF ~Truthy(contractAddress) THEN Declined(st)
    ELSE LET eventData == safeScValToNative(event.value) IN
    IF LacksKeys(eventData, {<<"n", "e", "w", "_", "o", "w", "n", "e", "r">>})
    THEN Declined(st)
    ELSE LET newOwner == eventData.val[<<"n", "e", "w", "_", "o", "w", "n", "e", "r">>] IN
    IF ~isValidStellarAddress(newOwner) THEN Declined(st)
    ELSE LET previousOwner == Undefined IN
    IF BigIntThrows(event) THEN Threw(st)
    ELSE LET accessEvent ==
                 AccessControlEvent(event.id \o <<"-", "o", "w", "n", "e", "r", "s", "h", "i", "p">>,
                                    contractAddress, "OWNERSHIP_TRANSFER_COMPLETED", Undefined,
                                    newOwner, previousOwner, Undefined, Undefined, event)
             ownership ==
                 [id |-> contractAddress.val,
                  contract |-> contractAddress.val,
                  owner |-> newOwner.val,
                  previousOwner |-> previousOwner,
                  transferredAt |-> NewDate(event.ledgerClosedAt),
                  txHash |-> TxHash(event)]
         IN  Accepted([st EXCEPT
                 !.contracts = updateContractMetadata(@, contractAddress, "OWNABLE",
                                                      NewDate(event.ledgerClosedAt)),
                 !.accessEvents = Save(@, accessEvent),
                 !.contractOwnerships = Save(@, ownership)])

handleOwnershipTransferCompleted(st, event) ==
    IF ~hasValidLedgerInfo(event) THEN Declined(st)
    ELSE IF ~event.topic.present THEN Threw(st)
    ELSE IF TopicLength(event) # 1 THEN Declined(st)
    ELSE LET contractAddress == getContractAddress(event) IN
    IF ~Truthy(contractAddress) THEN Declined(st)
    ELSE LET eventData == safeScValToNative(event.value) IN
    IF LacksKeys(eventData, {<<"n", "e", "w", "_", "o", "w", "n", "e", "r">>})
    THEN Declined(st)
    ELSE LET newOwner == eventData.val[<<"n", "e", "w", "_", "o", "w", "n", "e", "r">>] IN
    IF ~isValidStellarAddress(newOwner) THEN Declined(st)
    ELSE LET previousOwner == Undefined IN
    IF BigIntThrows(event) THEN Threw(st)
    ELSE LET accessEvent ==
                 AccessControlEvent(event.id \o <<"-", "o", "w", "n", "e", "r", "s", "h", "i", "p">>,
                                    contractAddress, "OWNERSHIP_TRANSFER_COMPLETED", Undefined,
                                    newOwner, previousOwner, Undefined, Undefined, event)
             ownership ==
                 [id |-> contractAddress.val,
                  contract |-> contractAddress.val,
                  owner |-> newOwner.val,
                  previousOwner |-> previousOwner,
                  transferredAt |-> NewDate(event.ledgerClosedAt),
                  txHash |-> TxHash(event)]
         IN  Accepted([st EXCEPT
                 !.contracts = updateContractMetadata(@, contractAddress, "OWNABLE",
                                                      NewDate(event.ledgerClosedAt)),
                 !.accessEvents = Save(@, accessEvent),
                 !.contractOwnerships = Save(@, ownership)])

\* a renouncement that removes the ownership only of the owner it names
handleOwnershipRenouncedOfRecordedOwner(st, event) ==
    IF ~hasValidLedgerInfo(event) THEN Declined(st)
    ELSE IF ~event.topic.present THEN Threw(st)
    ELSE IF TopicLength(event) # 1 THEN Declined(st)
    ELSE LET contractAddress == getContractAddress(event) IN
    IF ~Truthy(contractAddress) THEN Declined(st)
    ELSE LET eventData == safeScValToNative(event.value) IN
    IF LacksKeys(eventData, {<<"o", "l", "d", "_", "o", "w", "n", "e", "r">>})
    THEN Declined(st)
    ELSE LET oldOwner == eventData.val[<<"o", "l", "d", "_", "o", "w", "n", "e", "r">>] IN
    IF ~isValidStellarAddress(oldOwner) THEN Declined(st)
    ELSE IF BigIntThrows(event) THEN Threw(st)
    ELSE LET accessEvent ==
                 AccessControlEvent(event.id \o <<"-", "o", "w", "n", "e", "r", "s", "h", "i", "p", "-", "r", "e", "n", "o", "u", "n", "c", "e", "d">>,
                                    contractAddress, "OWNERSHIP_RENOUNCED", Undefined,
                                    oldOwner, Undefined, Undefined, Undefined, event)
         IN  Accepted([st EXCEPT
                 !.contractOwnerships =
                     IF contractAddress.val \in DOMAIN @ /\ @[contractAddress.val].owner = oldOwner.val
                     THEN Remove(@, contractAddress.val)
                     ELSE @,
                 !.contracts = updateContractMetadata(@, contractAddress, "OWNABLE",
                                                      NewDate(event.ledgerClosedAt)),
                 !.accessEvents = Save(@, accessEvent)])

handleOwnershipRenounced(st, event) ==
    IF ~hasValidLedgerInfo(event) THEN Declined(st)
    ELSE IF ~event.topic.present THEN Threw(st)
    ELSE IF TopicLength(event) # 1 THEN Declined(st)
    ELSE LET contractAddress == getContractAddress(event) IN
    IF ~Truthy(contractAddress) THEN Declined(st)
    ELSE LET eventData == safeScValToNative(event.value) IN
    IF LacksKeys(eventData, {<<"o", "l", "d", "_", "o", "w", "n", "e", "r">>})
    THEN Declined(st)
    ELSE LET oldOwner == eventData.val[<<"o", "l", "d", "_", "o", "w", "n", "e", "r">>] IN
    IF ~isValidStellarAddress(oldOwner) THEN Declined(st)
    ELSE IF BigIntThrows(event) THEN Threw(st)
    ELSE LET accessEvent ==
                 AccessControlEvent(event.id \o <<"-", "o", "w", "n", "e", "r", "s", "h", "i", "p", "-", "r", "e", "n", "o", "u", "n", "c", "e", "d">>,
                                    contractAddress, "OWNERSHIP_RENOUNCED", Undefined,
                                    oldOwner, Undefined, Undefined, Undefined, event)
         IN  Accepted([st EXCEPT
                 !.contractOwnerships = Remove(@, contractAddress.val),
                 !.contracts = updateContractMetadata(@, contractAddress, "OWNABLE",
                                                      NewDate(event.ledgerClosedAt)),
                 !.accessEvents = Save(@, accessEvent)])

handleAdminRenouncedShortSuffix(st, event) ==
    IF ~hasValidLedgerInfo(event) THEN Declined(st)
    ELSE IF ~event.topic.present THEN Threw(st)
    ELSE IF TopicLength(event) # 2 THEN Declined(st)
    ELSE LET contractAddress == getContractAddress(event) IN
    IF ~Truthy(contractAddress) THEN Declined(st)
    ELSE LET admin == safeScValToNative(Topic(event, 1)) IN
    IF ~isValidStellarAddress(admin) THEN Declined(st)
    ELSE IF BigIntThrows(event) THEN Threw(st)
    ELSE LET accessEvent ==
                 AccessControlEvent(event.id \o <<"-", "r", "e", "n", "o", "u", "n", "c", "e", "d">>,
                                    contractAddress, "ADMIN_RENOUNCED", Undefined,
                                    admin, Undefined, Undefined, Undefined, event)
         IN  Accepted([st EXCEPT
                 !.contracts = updateContractMetadata(@, contractAddress, "ACCESS_CONTROL",
                                                      NewDate(event.ledgerClosedAt)),
                 !.accessEvents = Save(@, accessEvent)])

handleAdminRenounced(st, event) ==
    IF ~hasValidLedgerInfo(event) THEN Declined(st)
    ELSE IF ~event.topic.present THEN Threw(st)
    ELSE IF TopicLength(event) # 2 THEN Declined(st)
    ELSE LET contractAddress == getContractAddress(event) IN
    IF ~Truthy(contractAddress) THEN Declined(st)
    ELSE LET admin == safeScValToNative(Topic(event, 1)) IN
    IF ~isValidStellarAddress(admin) THEN Declined(st)
    ELSE IF BigIntThrows(event) THEN Threw(st)
    ELSE LET accessEvent ==
                 AccessControlEvent(event.id \o <<"-", "a", "d", "m", "i", "n", "-", "r", "e", "n", "o", "u", "n", "c", "e", "d">>,
                                    contractAddress, "ADMIN_RENOUNCED", Undefined,
                                    admin, Undefined, Undefined, Undefined, event)
         IN  Accepted([st EXCEPT
                 !.contracts = updateContractMetadata(@, contractAddress, "ACCESS_CONTROL",
                                                      NewDate(event.ledgerClosedAt)),
                 !.accessEvents = Save(@, accessEvent)])

handleRoleAdminChanged(st, event) ==
    IF ~hasValidLedgerInfo(event) THEN Declined(st)
    ELSE IF ~event.topic.present THEN Threw(st)
    ELSE IF TopicLength(event) # 2 THEN Declined(st)
    ELSE LET contractAddress == getContractAddress(event) IN
    IF ~Truthy(contractAddress) THEN Declined(st)
    ELSE LET role == safeScValToNative(Topic(event, 1)) IN
    IF ~isValidRoleSymbol(role) THEN Declined(st)
    ELSE LET eventData == safeScValToNative(event.value) IN
    IF LacksKeys(eventData, {<<"p", "r", "e", "v", "i", "o", "u", "s", "_", "a", "d", "m", "i", "n", "_", "r", "o", "l", "e">>,
                             <<"n", "e", "w", "_", "a", "d", "m", "i", "n", "_", "r", "o", "l", "e">>})
    THEN Declined(st)
    ELSE LET previousAdminRole == eventData.val[<<"p", "r", "e", "v", "i", "o", "u", "s", "_", "a", "d", "m", "i", "n", "_", "r", "o", "l", "e">>]
             newAdminRole == eventData.val[<<"n", "e", "w", "_", "a", "d", "m", "i", "n", "_", "r", "o", "l", "e">>] IN
    IF previousAdminRole.typeof # "string" \/ ~isValidRoleSymbol(newAdminRole)
    THEN Declined(st)
    ELSE IF BigIntThrows(event) THEN Threw(st)
    ELSE LET accessEvent ==
                 AccessControlEvent(event.id \o <<"-", "r", "o", "l", "e", "-", "a", "d", "m", "i", "n", "-", "c", "h", "a", "n", "g", "e", "d">>,
                                    contractAddress, "ROLE_ADMIN_CHANGED", role,
                                    Undefined, Undefined, previousAdminRole, newAdminRole,
                                    event)
         IN  Accepted([st EXCEPT
                 !.contracts = updateContractMetadata(@, contractAddress, "ACCESS_CONTROL",
                                                      NewDate(event.ledgerClosedAt)),
                 !.accessEvents = Save(@, accessEvent)])

(* ------------------------------------------------------------------ *)
(* The raw events delivered to the handlers                           *)
(* ------------------------------------------------------------------ *)

\* handler calls in one run
MaxEvents == 3

E1 == <<"e", "1">>

E2 == <<"e", "2">>

RawIds == {E1, E2}

Minter == <<"m", "i", "n", "t">>

AdminRole == <<"a", "d", "m">>

\* a string that is no symbol
BadSymbol == <<"b", "-", "r">>

\* the ledger a raw event id belongs to: e1 closed in ledger 1, e2 in ledger 2
LedgerOf(id) == IF id = E1 THEN 1 ELSE 2

CloseTimeOf(id) == IF id = E1 THEN <<"T", "1">> ELSE <<"T", "2">>

\* e1 carries its transaction, e2 does not
TransactionOf(id) ==
    IF id = E1 THEN [present |-> TRUE, hash |-> <<"h", "1">>]
    ELSE [present |-> FALSE, hash |-> <<>>]

\* a well-formed envelope around topics and a payload
RawEvent(id, contract, topics, value) ==
    [id |-> id,
     contractId |-> [k |-> "ok", addr |-> contract],
     ledger |-> [present |-> TRUE, sequence |-> Num(LedgerOf(id))],
     ledgerClosedAt |-> Str(CloseTimeOf(id)),
     transaction |-> TransactionOf(id),
     topic |-> [present |-> TRUE, list |-> topics],
     value |-> value]

\* a map payload with one, two or three entries
Map1(k1, v1) == ScvMap(k1 :> v1)

Map2(k1, v1, k2, v2) == ScvMap((k1 :> v1) @@ (k2 :> v2))

Map3(k1, v1, k2, v2, k3, v3) == ScvMap((k1 :> v1) @@ (k2 :> v2) @@ (k3 :> v3))

\* e1 names its caller, e2 has no payload
CallerOf(id) ==
    IF id = E1 THEN Map1(<<"c", "a", "l", "l", "e", "r">>, ScvAddress(G3)) ELSE NoScVal

\* e1 hands over to G1, e2 to G2
NewPartyOf(id) == IF id = E1 THEN G1 ELSE G2

\* the envelope faults: each turns a well-formed event into a malformed one
WithoutLedger(e) ==
    [e EXCEPT !.ledger = [present |-> FALSE, sequence |-> Undefined]]

WithoutSequence(e) == [e EXCEPT !.ledger.sequence = Undefined]

WithStringSequence(e) == [e EXCEPT !.ledger.sequence = Str(<<"7">>)]

WithFractionalSequence(e) == [e EXCEPT !.ledger.sequence = Frac(1, 5)]

WithoutCloseTime(e) == [e EXCEPT !.ledgerClosedAt = Undefined]

WithoutTopics(e) == [e EXCEPT !.topic = [present |-> FALSE, list |-> <<>>]]

WithOneTopicLess(e) ==
    [e EXCEPT !.topic.list = SubSeq(@, 1, Len(@) - 1)]

WithOneTopicMore(e) == [e EXCEPT !.topic.list = Append(@, ScvVoid)]

WithoutContract(e) == [e EXCEPT !.contractId = [k |-> "absent", addr |-> <<>>]]

WithThrowingContract(e) == [e EXCEPT !.contractId = [k |-> "throws", addr |-> <<>>]]

WithBadContract(e) == [e EXCEPT !.contractId = [k |-> "ok", addr |-> BadC]]

WithTopic(e, i, sv) == [e EXCEPT !.topic.list[i + 1] = sv]

WithValue(e, sv) == [e EXCEPT !.value = sv]

\* the faults every kind is tried with
CommonFaults(e) == {WithOneTopicLess(e), WithFractionalSequence(e)}

\* the envelope faults, tried on role_granted
EnvelopeFaults(e) ==
    {WithoutLedger(e), WithoutSequence(e), WithoutCloseTime(e), WithoutTopics(e),
     WithoutContract(e), WithThrowingContract(e), WithBadContract(e),
     WithOneTopicMore(e)}

\* ---- role_granted
RoleGrantedEvent(id, contract, role, account) ==
    RawEvent(id, contract,
             <<ScvSymbol(<<"r", "o", "l", "e", "_", "g", "r", "a", "n", "t", "e", "d">>),
               ScvSymbol(role), ScvAddress(account)>>,
             CallerOf(id))

RoleGrantedGood ==
    {RoleGrantedEvent(id, C1, Minter, a) : id \in RawIds, a \in {G1, G2}}
        \cup {RoleGrantedEvent(E1, C2, Minter, G1)}

RoleGrantedBad ==
    LET e == RoleGrantedEvent(E1, C1, Minter, G1)
    IN  CommonFaults(e) \cup EnvelopeFaults(e)
            \cup {WithTopic(e, 1, JunkScVal), WithTopic(e, 1, ScvSymbol(BadSymbol)),
                   WithTopic(e, 2, ScvAddress(BadG))}

RoleGrantedEvents == RoleGrantedGood \cup RoleGrantedBad

\* ---- role_revoked
RoleRevokedEvent(id, contract, role, account) ==
    RawEvent(id, contract,
             <<ScvSymbol(<<"r", "o", "l", "e", "_", "r", "e", "v", "o", "k", "e", "d">>),
               ScvSymbol(role), ScvAddress(account)>>,
             CallerOf(id))

RoleRevokedGood ==
    {RoleRevokedEvent(id, C1, Minter, a) : id \in RawIds, a \in {G1, G2}}
        \cup {RoleRevokedEvent(E1, C2, Minter, G1)}

RoleRevokedBad ==
    LET e == RoleRevokedEvent(E1, C1, Minter, G1)
    IN  CommonFaults(e)
            \cup {WithTopic(e, 1, ScvSymbol(BadSymbol)),
                   WithTopic(e, 2, ScvAddress(BadG))}

RoleRevokedEvents == RoleRevokedGood \cup RoleRevokedBad

\* ---- admin_transfer_initiated
AdminTransferInitiatedEvent(id, contract) ==
    RawEvent(id, contract,
             <<ScvSymbol(<<"a", "d", "m", "i", "n", "_", "t", "r", "a", "n", "s", "f", "e", "r", "_", "i", "n", "i", "t", "i", "a", "t", "e", "d">>),
               ScvAddress(G3)>>,
             Map2(<<"n", "e", "w", "_", "a", "d", "m", "i", "n">>, ScvAddress(NewPartyOf(id)),
                  <<"l", "i", "v", "e", "_", "u", "n", "t", "i", "l", "_", "l", "e", "d", "g", "e", "r">>, ScvU32(9)))

AdminTransferInitiatedGood ==
    {AdminTransferInitiatedEvent(E1, c) : c \in {C1, C2}}

AdminTransferInitiatedBad ==
    LET e == AdminTransferInitiatedEvent(E1, C1)
    IN  CommonFaults(e)
            \cup {WithValue(e, NoScVal),
                   WithValue(e, Map1(<<"n", "e", "w", "_", "a", "d", "m", "i", "n">>, ScvAddress(G1))),
                   WithValue(e, Map2(<<"n", "e", "w", "_", "a", "d", "m", "i", "n">>, ScvAddress(BadG),
                                     <<"l", "i", "v", "e", "_", "u", "n", "t", "i", "l", "_", "l", "e", "d", "g", "e", "r">>, ScvU32(9))),
                   WithValue(e, Map2(<<"n", "e", "w", "_", "a", "d", "m", "i", "n">>, ScvAddress(G1),
                                     <<"l", "i", "v", "e", "_", "u", "n", "t", "i", "l", "_", "l", "e", "d", "g", "e", "r">>, ScvU64(9)))}

AdminTransferInitiatedEvents ==
    AdminTransferInitiatedGood \cup AdminTransferInitiatedBad

\* ---- admin_transfer_completed
AdminTransferCompletedEvent(id, contract) ==
    RawEvent(id, contract,
             <<ScvSymbol(<<"a", "d", "m", "i", "n", "_", "t", "r", "a", "n", "s", "f", "e", "r", "_", "c", "o", "m", "p", "l", "e", "t", "e", "d">>),
               ScvAddress(NewPartyOf(id))>>,
             Map1(<<"p", "r", "e", "v", "i", "o", "u", "s", "_", "a", "d", "m", "i", "n">>, ScvAddress(G3)))

AdminTransferCompletedGood ==
    {AdminTransferCompletedEvent(E1, c) : c \in {C1, C2}}

AdminTransferCompletedBad ==
    LET e == AdminTransferCompletedEvent(E1, C1)
    IN  CommonFaults(e)
            \cup {WithTopic(e, 1, ScvAddress(BadG)),
                   WithValue(e, ScvVec(<<ScvAddress(G3)>>)),
                   WithValue(e, Map1(<<"n", "e", "w", "_", "a", "d", "m", "i", "n">>, ScvAddress(G3))),
                   WithValue(e, Map1(<<"p", "r", "e", "v", "i", "o", "u", "s", "_", "a", "d", "m", "i", "n">>, ScvAddress(BadG)))}

AdminTransferCompletedEvents ==
    AdminTransferCompletedGood \cup AdminTransferCompletedBad

\* ---- admin_renounced
AdminRenouncedEvent(id, contract) ==
    RawEvent(id, contract,
             <<ScvSymbol(<<"a", "d", "m", "i", "n", "_", "r", "e", "n", "o", "u", "n", "c", "e", "d">>), ScvAddress(G3)>>,
             NoScVal)

AdminRenouncedGood == {AdminRenouncedEvent(E1, c) : c \in {C1, C2}}

AdminRenouncedBad ==
    LET e == AdminRenouncedEvent(E1, C1)
    IN  CommonFaults(e)
            \cup {WithTopic(e, 1, ScvAddress(BadG))}

AdminRenouncedEvents == AdminRenouncedGood \cup AdminRenouncedBad

\* ---- role_admin_changed
RoleAdminChangedEvent(id, contract, previous) ==
    RawEvent(id, contract,
             <<ScvSymbol(<<"r", "o", "l", "e", "_", "a", "d", "m", "i", "n", "_", "c", "h", "a", "n", "g", "e", "d">>), ScvSymbol(Minter)>>,
             Map2(<<"p", "r", "e", "v", "i", "o", "u", "s", "_", "a", "d", "m", "i", "n", "_", "r", "o", "l", "e">>, previous,
                  <<"n", "e", "w", "_", "a", "d", "m", "i", "n", "_", "r", "o", "l", "e">>, ScvSymbol(AdminRole)))

\* the first-time set (previous admin role empty), and a change from a role that is no symbol
RoleAdminChangedGood ==
    {RoleAdminChangedEvent(E1, c, ScvSymbol(<<>>)) : c \in {C1, C2}}
        \cup {RoleAdminChangedEvent(E2, C1, ScvSymbol(BadSymbol))}

RoleAdminChangedBad ==
    LET e == RoleAdminChangedEvent(E1, C1, ScvSymbol(<<>>))
    IN  CommonFaults(e)
            \cup {WithTopic(e, 1, ScvSymbol(BadSymbol)),
                   WithValue(e, NoScVal),
                   WithValue(e, Map1(<<"p", "r", "e", "v", "i", "o", "u", "s", "_", "a", "d", "m", "i", "n", "_", "r", "o", "l", "e">>, ScvSymbol(<<>>))),
                   WithValue(e, Map2(<<"p", "r", "e", "v", "i", "o", "u", "s", "_", "a", "d", "m", "i", "n", "_", "r", "o", "l", "e">>, ScvSymbol(<<>>),
                                     <<"n", "e", "w", "_", "a", "d", "m", "i", "n", "_", "r", "o", "l", "e">>, ScvSymbol(BadSymbol))),
                   WithValue(e, Map2(<<"p", "r", "e", "v", "i", "o", "u", "s", "_", "a", "d", "m", "i", "n", "_", "r", "o", "l", "e">>, ScvU32(1),
                                     <<"n", "e", "w", "_", "a", "d", "m", "i", "n", "_", "r", "o", "l", "e">>, ScvSymbol(AdminRole)))}

RoleAdminChangedEvents == RoleAdminChangedGood \cup RoleAdminChangedBad

\* ---- ownership_transfer
OwnershipTransferStartedEvent(id, contract) ==
    RawEvent(id, contract,
             <<ScvSymbol(<<"o", "w", "n", "e", "r", "s", "h", "i", "p", "_", "t", "r", "a", "n", "s", "f", "e", "r">>)>>,
             Map3(<<"o", "l", "d", "_", "o", "w", "n", "e", "r">>, ScvAddress(G3),
                  <<"n", "e", "w", "_", "o", "w", "n", "e", "r">>, ScvAddress(NewPartyOf(id)),
                  <<"l", "i", "v", "e", "_", "u", "n", "t", "i", "l", "_", "l", "e", "d", "g", "e", "r">>, ScvU32(9)))

\* the code accepts a transfer whose payload has no live_until_ledger
OwnershipTransferStartedGood ==
    {OwnershipTransferStartedEvent(E1, c) : c \in {C1, C2}}
        \cup {WithValue(OwnershipTransferStartedEvent(E2, C1),
                         Map2(<<"o", "l", "d", "_", "o", "w", "n", "e", "r">>, ScvAddress(G3),
                              <<"n", "e", "w", "_", "o", "w", "n", "e", "r">>, ScvAddress(G2)))}

OwnershipTransferStartedBad ==
    LET e == OwnershipTransferStartedEvent(E1, C1)
    IN  CommonFaults(e)
            \cup {WithValue(e, ScvVec(<<ScvAddress(G3), ScvAddress(G1)>>)),
                   WithValue(e, Map1(<<"o", "l", "d", "_", "o", "w", "n", "e", "r">>, ScvAddress(G3))),
                   WithValue(e, Map2(<<"o", "l", "d", "_", "o", "w", "n", "e", "r">>, ScvAddress(BadG),
                                     <<"n", "e", "w", "_", "o", "w", "n", "e", "r">>, ScvAddress(G1)))}

OwnershipTransferStartedEvents ==
    OwnershipTransferStartedGood \cup OwnershipTransferStartedBad

\* ---- ownership_transfer_completed
OwnershipTransferCompletedEvent(id, contract) ==
    RawEvent(id, contract,
             <<ScvSymbol(<<"o", "w", "n", "e", "r", "s", "h", "i", "p", "_", "t", "r", "a", "n", "s", "f", "e", "r", "_", "c", "o", "m", "p", "l", "e", "t", "e", "d">>)>>,
             Map1(<<"n", "e", "w", "_", "o", "w", "n", "e", "r">>, ScvAddress(NewPartyOf(id))))

OwnershipTransferCompletedGood ==
    {OwnershipTransferCompletedEvent(id, C1) : id \in RawIds}
        \cup {OwnershipTransferCompletedEvent(E1, C2)}

OwnershipTransferCompletedBad ==
    LET e == OwnershipTransferCompletedEvent(E1, C1)
    IN  CommonFaults(e)
            \cup {WithOneTopicMore(e), WithValue(e, JunkScVal),
                   WithValue(e, Map1(<<"n", "e", "w", "_", "o", "w", "n", "e", "r">>, ScvAddress(BadG)))}

OwnershipTransferCompletedEvents ==
    OwnershipTransferCompletedGood \cup OwnershipTransferCompletedBad

\* ---- ownership_renounced
OwnershipRenouncedEvent(id, contract) ==
    RawEvent(id, contract,
             <<ScvSymbol(<<"o", "w", "n", "e", "r", "s", "h", "i", "p", "_", "r", "e", "n", "o", "u", "n", "c", "e", "d">>)>>,
             Map1(<<"o", "l", "d", "_", "o", "w", "n", "e", "r">>, ScvAddress(G1)))

OwnershipRenouncedGood ==
    {OwnershipRenouncedEvent(id, C1) : id \in RawIds}
        \cup {OwnershipRenouncedEvent(E2, C2)}

OwnershipRenouncedBad ==
    LET e == OwnershipRenouncedEvent(E1, C1)
    IN  CommonFaults(e)
            \cup {WithValue(e, Map1(<<"n", "e", "w", "_", "o", "w", "n", "e", "r">>, ScvAddress(G1))),
                   WithValue(e, Map1(<<"o", "l", "d", "_", "o", "w", "n", "e", "r">>, ScvAddress(BadG)))}

OwnershipRenouncedEvents == OwnershipRenouncedGood \cup OwnershipRenouncedBad

(* ------------------------------------------------------------------ *)
(* The state machine: the host calls one handler at a time            *)
(* ------------------------------------------------------------------ *)

\* the handler the project manifest routes a call to
Handle(handler, st, event) ==
    CASE handler = "handleRoleGranted" -> handleRoleGranted(st, event)
      [] handler = "handleRoleRevoked" -> handleRoleRevoked(st, event)
      [] handler = "handleAdminTransferInitiated" ->
             handleAdminTransferInitiated(st, event)
      [] handler = "handleAdminTransferCompleted" ->
             handleAdminTransferCompleted(st, event)
      [] handler = "handleAdminRenounced" -> handleAdminRenounced(st, event)
      [] handler = "handleRoleAdminChanged" -> handleRoleAdminChanged(st, event)
      [] handler = "handleOwnershipTransferStarted" ->
             handleOwnershipTransferStarted(st, event)
      [] handler = "handleOwnershipTransferCompleted" ->
             handleOwnershipTransferCompleted(st, event)
      [] handler = "handleOwnershipRenounced" -> handleOwnershipRenounced(st, event)

\* before any handler call
NoCall ==
    [handler |-> "none", event |-> [id |-> <<>>], outcome |-> "none",
     again |-> FALSE, redelivered |-> FALSE]

\* no validation function was called yet
NoProbe == [fn |-> "none", input |-> <<>>, returned |-> FALSE, output |-> <<>>]

\* no handler call is under way
Idle ==
    [status |-> "idle", handler |-> "none", event |-> [id |-> <<>>], stage |-> 1,
     inflight |-> {}, failed |-> FALSE,
     result |-> [outcome |-> "none",
                 store |-> [accessEvents |-> EmptyTable, roleMemberships |-> EmptyTable,
                            contractOwnerships |-> EmptyTable, contracts |-> EmptyTable]]]

\* a store with no entity
EmptyStore ==
    [accessEvents |-> EmptyTable, roleMemberships |-> EmptyTable,
     contractOwnerships |-> EmptyTable, contracts |-> EmptyTable]

\* nothing was accepted yet, and nothing is replayed
NoReplay == [phase |-> "first", log |-> <<>>, pos |-> 0, once |-> EmptyStore]

\* the second run has seen nothing yet
NoMirror == [store |-> EmptyStore, held |-> <<>>, exchanged |-> <<>>]

\* no call of the two is under way
NoneRunning ==
    [p \in {1, 2} |->
        [status |-> "idle", handler |-> "none", event |-> [id |-> <<>>], stage |-> 1,
         inflight |-> {}, read |-> "none", contract |-> EmptyTable]]

Init ==
    /\ accessEvents = EmptyTable
    /\ roleMemberships = EmptyTable
    /\ contractOwnerships = EmptyTable
    /\ contracts = EmptyTable
    /\ last = NoCall
    /\ lastRoleEvent = EmptyTable
    /\ lastOwnershipEvent = EmptyTable
    /\ applied = {}
    /\ delivered = {}
    /\ steps = 0
    /\ probe = NoProbe
    /\ call = Idle
    /\ replay = NoReplay
    /\ mirror = NoMirror
    /\ running = NoneRunning

\* the (contract, role, account) a role_granted / role_revoked event is about
TripleOf(event) ==
    <<event.contractId.addr, Topic(event, 1).arm, Topic(event, 2).arm>>

\* the history of accepted grants and revokes, per triple
RoleHistory(handler, event, outcome) ==
    IF outcome = "accepted" /\ handler \in {"handleRoleGranted", "handleRoleRevoked"}
    THEN (TripleOf(event) :> [handler |-> handler, event |-> event]) @@ lastRoleEvent
    ELSE lastRoleEvent

\* the history of accepted ownership completions and renouncements, per contract
OwnershipHistory(handler, event, outcome) ==
    IF outcome = "accepted"
       /\ handler \in {"handleOwnershipTransferCompleted", "handleOwnershipRenounced"}
    THEN (event.contractId.addr :> [handler |-> handler, event |-> event])
         @@ lastOwnershipEvent
    ELSE lastOwnershipEvent

\* the calls that were accepted so far
Applied(handler, event, outcome) ==
    IF outcome = "accepted"
    THEN applied \cup {[handler |-> handler, event |-> event]}
    ELSE applied

\* the store and the history after a handler call that came to `result`
Settle(handler, event, result) ==
    /\ accessEvents' = result.store.accessEvents
    /\ roleMemberships' = result.store.roleMemberships
    /\ contractOwnerships' = result.store.contractOwnerships
    /\ contracts' = result.store.contracts
    /\ last' = [handler |-> handler,
                event |-> event,
                outcome |-> result.outcome,
                again |-> (handler = last.handler /\ event = last.event),
                redelivered |-> ([handler |-> handler, event |-> event] \in applied)]
    /\ applied' = Applied(handler, event, result.outcome)
    /\ delivered' = delivered \cup {[handler |-> handler, event |-> event]}
    /\ lastRoleEvent' = RoleHistory(handler, event, result.outcome)
    /\ lastOwnershipEvent' = OwnershipHistory(handler, event, result.outcome)
    /\ steps' = steps + 1
    /\ UNCHANGED <<probe, call>>

\* the host numbers the events of the chain: one id, one event. The ids e1
\* and e2 are used in every kind, so an id is its event's own within a kind;
\* the same event may be delivered again.
FreshOrSame(handler, event) ==
    \A d \in delivered :
        (d.handler = handler /\ d.event.id = event.id) => d.event = event

\* the host awaits the handler: its whole effect is one step
Deliver(handler, event) ==
    /\ FreshOrSame(handler, event)
    /\ Settle(handler, event, Handle(handler, Store, event))
    /\ UNCHANGED comparisonVars

\* the run goes on for MaxEvents handler calls
Ready == steps < MaxEvents

RoleGranted ==
    \E event \in RoleGrantedEvents :
        /\ Ready
        /\ Deliver("handleRoleGranted", event)

RoleRevoked ==
    \E event \in RoleRevokedEvents :
        /\ Ready
        /\ Deliver("handleRoleRevoked", event)

AdminTransferInitiated ==
    \E event \in AdminTransferInitiatedEvents :
        /\ Ready
        /\ Deliver("handleAdminTransferInitiated", event)

AdminTransferCompleted ==
    \E event \in AdminTransferCompletedEvents :
        /\ Ready
        /\ Deliver("handleAdminTransferCompleted", event)

AdminRenounced ==
    \E event \in AdminRenouncedEvents :
        /\ Ready
        /\ Deliver("handleAdminRenounced", event)

RoleAdminChanged ==
    \E event \in RoleAdminChangedEvents :
        /\ Ready
        /\ Deliver("handleRoleAdminChanged", event)

OwnershipTransferStarted ==
    \E event \in OwnershipTransferStartedEvents :
        /\ Ready
        /\ Deliver("handleOwnershipTransferStarted", event)

OwnershipTransferCompleted ==
    \E event \in OwnershipTransferCompletedEvents :
        /\ Ready
        /\ Deliver("handleOwnershipTransferCompleted", event)

OwnershipRenounced ==
    \E event \in OwnershipRenouncedEvents :
        /\ Ready
        /\ Deliver("handleOwnershipRenounced", event)

Next ==
    \/ RoleGranted
    \/ RoleRevoked
    \/ AdminTransferInitiated
    \/ AdminTransferCompleted
    \/ AdminRenounced
    \/ RoleAdminChanged
    \/ OwnershipTransferStarted
    \/ OwnershipTransferCompleted
    \/ OwnershipRenounced

Spec == Init /\ [][Next]_vars

(* ------------------------------------------------------------------ *)
(* Every handler on every malformed envelope                          *)
(* ------------------------------------------------------------------ *)

\* handler calls in one run over the envelopes
MaxEnvelopeEvents == 2

\* the handlers of project.ts
Handlers ==
    {"handleRoleGranted", "handleRoleRevoked", "handleAdminTransferInitiated",
     "handleAdminTransferCompleted", "handleAdminRenounced", "handleRoleAdminChanged",
     "handleOwnershipTransferStarted", "handleOwnershipTransferCompleted",
     "handleOwnershipRenounced"}

\* a well-formed event of the handler's kind, on contract C1
WellFormed(handler, id) ==
    CASE handler = "handleRoleGranted" -> RoleGrantedEvent(id, C1, Minter, G1)
      [] handler = "handleRoleRevoked" -> RoleRevokedEvent(id, C1, Minter, G1)
      [] handler = "handleAdminTransferInitiated" -> AdminTransferInitiatedEvent(id, C1)
      [] handler = "handleAdminTransferCompleted" -> AdminTransferCompletedEvent(id, C1)
      [] handler = "handleAdminRenounced" -> AdminRenouncedEvent(id, C1)
      [] handler = "handleRoleAdminChanged" -> RoleAdminChangedEvent(id, C1, ScvSymbol(<<>>))
      [] handler = "handleOwnershipTransferStarted" -> OwnershipTransferStartedEvent(id, C1)
      [] handler = "handleOwnershipTransferCompleted" ->
             OwnershipTransferCompletedEvent(id, C1)
      [] handler = "handleOwnershipRenounced" -> OwnershipRenouncedEvent(id, C1)

\* the envelopes a handler is tried with: well-formed, and each fault of the
\* contract identifier and of the ledger information
Envelopes(handler) ==
    LET e == WellFormed(handler, E1)
    IN  {e, WellFormed(handler, E2),
         WithoutContract(e), WithThrowingContract(e), WithBadContract(e),
         WithoutLedger(e), WithoutSequence(e), WithStringSequence(e),
         WithoutCloseTime(e)}

DeliverEnvelope ==
    \E handler \in Handlers :
        \E event \in Envelopes(handler) :
            /\ steps < MaxEnvelopeEvents
            /\ Deliver(handler, event)

EnvelopeSpec == Init /\ [][DeliverEnvelope]_vars

(* ------------------------------------------------------------------ *)
(* Properties                                                         *)
(* ------------------------------------------------------------------ *)

\* the contract identifier of a raw event that was accepted
ContractOf(event) == event.contractId.addr

\* a call that was accepted
LastAccepted == last.outcome = "accepted"

\* C1: a RoleMembership with key {contract}-{role}-{account} exists if and
\* only if the most recent accepted grant or revoke of that triple was a
\* grant, and then its grantedAt / grantedBy are those of that grant.
MembershipFollowsLatestRoleEvent ==
    /\ \A tr \in DOMAIN lastRoleEvent :
           LET key == tr[1] \o <<"-">> \o tr[2] \o <<"-">> \o tr[3]
               h == lastRoleEvent[tr]
           IN  /\ key \in DOMAIN roleMemberships <=> h.handler = "handleRoleGranted"
               /\ key \in DOMAIN roleMemberships =>
                      /\ roleMemberships[key].grantedAt = NewDate(h.event.ledgerClosedAt)
                      /\ roleMemberships[key].grantedBy = Sender(h.event)
                      /\ roleMemberships[key].contract = tr[1]
                      /\ roleMemberships[key].role = tr[2]
                      /\ roleMemberships[key].account = tr[3]
    /\ \A key \in DOMAIN roleMemberships :
           \E tr \in DOMAIN lastRoleEvent :
               key = tr[1] \o <<"-">> \o tr[2] \o <<"-">> \o tr[3]

\* C1 witness: a triple granted by e1 (caller G3) was granted again by e2
\* (no caller), and the membership carries the second grant.
RegrantedMembership ==
    /\ <<C1, Minter, G1>> \in DOMAIN lastRoleEvent
    /\ lastRoleEvent[<<C1, Minter, G1>>] =
           [handler |-> "handleRoleGranted",
            event |-> RoleGrantedEvent(E2, C1, Minter, G1)]
    /\ (E1 \o <<"-", "g", "r", "a", "n", "t", "e", "d">>) \in DOMAIN accessEvents
    /\ accessEvents[E1 \o <<"-", "g", "r", "a", "n", "t", "e", "d">>].account = Str(G1)
    /\ accessEvents[E1 \o <<"-", "g", "r", "a", "n", "t", "e", "d">>].contract = C1
    /\ accessEvents[E1 \o <<"-", "g", "r", "a", "n", "t", "e", "d">>].role = Str(Minter)
    /\ roleMemberships[C1 \o <<"-">> \o Minter \o <<"-">> \o G1].grantedAt = 2

\* C2: a ContractOwnership with key {contract} exists if and only if the most
\* recent accepted completion or renouncement for the contract was a
\* completion, and then its owner is that event's new_owner and its
\* previousOwner is absent.
OwnershipFollowsLatestOwnershipEvent ==
    /\ \A c \in DOMAIN lastOwnershipEvent :
           LET h == lastOwnershipEvent[c]
           IN  /\ c \in DOMAIN contractOwnerships
                      <=> h.handler = "handleOwnershipTransferCompleted"
               /\ c \in DOMAIN contractOwnerships =>
                      /\ contractOwnerships[c].owner =
                             h.event.value.arm[<<"n", "e", "w", "_", "o", "w", "n", "e", "r">>].arm
                      /\ contractOwnerships[c].previousOwner = Undefined
                      /\ contractOwnerships[c].contract = c
    /\ DOMAIN contractOwnerships \subseteq DOMAIN lastOwnershipEvent

\* C2 witness: the ownership of C1 was completed and then renounced.
RenouncedAfterCompleted ==
    /\ C1 \in DOMAIN lastOwnershipEvent
    /\ lastOwnershipEvent[C1].handler = "handleOwnershipRenounced"
    /\ \E id \in DOMAIN accessEvents :
           /\ accessEvents[id].type = "OWNERSHIP_TRANSFER_COMPLETED"
           /\ accessEvents[id].contract = C1
    /\ C1 \notin DOMAIN contractOwnerships

\* a step that leaves the four tables as they are
StoreUnchanged ==
    /\ accessEvents' = accessEvents
    /\ roleMemberships' = roleMemberships
    /\ contractOwnerships' = contractOwnerships
    /\ contracts' = contracts

\* C3: for each of the 9 kinds and every store state, the second of two
\* applications of the same raw event in immediate succession changes none
\* of the canonical events, role memberships, ownerships and contract
\* metadata: the state after two applications is the state after one.
SecondApplicationChangesNothing ==
    [][last'.again => StoreUnchanged]_vars

\* C3 witness: a grant on a contract first seen as ownable was accepted twice
\* in a row, the metadata widened by the first of the two applications.
GrantAppliedTwiceOnOwnable ==
    /\ last.again
    /\ LastAccepted
    /\ last.handler = "handleRoleGranted"
    /\ steps = 3
    /\ ContractOf(last.event) \in DOMAIN contracts
    /\ contracts[ContractOf(last.event)].type = "ACCESS_CONTROL_OWNABLE"
    /\ MembershipId(Str(ContractOf(last.event)), Str(TripleOf(last.event)[2]),
                    Str(TripleOf(last.event)[3])) \in DOMAIN roleMemberships

\* the key of the membership of a (contract, role, account) triple
KeyOfTriple(tr) == tr[1] \o <<"-">> \o tr[2] \o <<"-">> \o tr[3]

\* the handlers that write no contract metadata
HandlersWithoutMetadata ==
    {"handleAdminTransferInitiated", "handleOwnershipTransferStarted"}

\* the memberships after a re-delivered grant or revoke: untouched when the
\* event is still the latest accepted one of its triple, and otherwise the
\* event's own effect applied once more
MembershipAfterRedelivery(handler, event) ==
    IF handler \in {"handleRoleGranted", "handleRoleRevoked"}
    THEN LET key == KeyOfTriple(TripleOf(event))
         IN  /\ DOMAIN roleMemberships' \ {key} = DOMAIN roleMemberships \ {key}
             /\ \A k \in DOMAIN roleMemberships \ {key} :
                    roleMemberships'[k] = roleMemberships[k]
             /\ IF lastRoleEvent[TripleOf(event)] = [handler |-> handler, event |-> event]
                THEN roleMemberships' = roleMemberships
                ELSE IF handler = "handleRoleGranted"
                THEN /\ key \in DOMAIN roleMemberships'
                     /\ roleMemberships'[key].grantedAt = NewDate(event.ledgerClosedAt)
                     /\ roleMemberships'[key].grantedBy = Sender(event)
                ELSE key \notin DOMAIN roleMemberships'
    ELSE roleMemberships' = roleMemberships

\* the ownerships after a re-delivered completion or renouncement
OwnershipAfterRedelivery(handler, event) ==
    IF handler \in {"handleOwnershipTransferCompleted", "handleOwnershipRenounced"}
    THEN LET c == ContractOf(event)
         IN  /\ DOMAIN contractOwnerships' \ {c} = DOMAIN contractOwnerships \ {c}
             /\ \A k \in DOMAIN contractOwnerships \ {c} :
                    contractOwnerships'[k] = contractOwnerships[k]
             /\ IF lastOwnershipEvent[c] = [handler |-> handler, event |-> event]
                THEN contractOwnerships' = contractOwnerships
                ELSE IF handler = "handleOwnershipTransferCompleted"
                THEN /\ c \in DOMAIN contractOwnerships'
                     /\ contractOwnerships'[c].transferredAt = NewDate(event.ledgerClosedAt)
                     /\ contractOwnerships'[c].owner =
                            event.value.arm[<<"n", "e", "w", "_", "o", "w", "n", "e", "r">>].arm
                ELSE c \notin DOMAIN contractOwnerships'
    ELSE contractOwnerships' = contractOwnerships

\* the contract metadata after a re-delivered event: the same contracts with
\* the same types, and the event's close time as the activity of its contract
MetadataAfterRedelivery(handler, event) ==
    /\ DOMAIN contracts' = DOMAIN contracts
    /\ \A c \in DOMAIN contracts :
           /\ contracts'[c].type = contracts[c].type
           /\ c # ContractOf(event) => contracts'[c] = contracts[c]
    /\ IF handler \in HandlersWithoutMetadata
       THEN contracts' = contracts
       ELSE contracts'[ContractOf(event)].lastActivityAt = NewDate(event.ledgerClosedAt)

\* C4 (as amended): re-delivering an already-applied raw event at a later
\* point of the stream is a second application of it, not a no-op. It is
\* accepted again; the canonical events, the set of contracts and their types
\* stay as they are; the lastActivityAt of its contract becomes the event's
\* close time (for the kinds that write metadata); and the membership or
\* ownership it is about stays as it is only if the event is still the latest
\* accepted one for its key: otherwise the event's effect is applied again
\* (a grant re-delivered after a later revoke re-creates the membership, a
\* completion re-delivered after a later renouncement re-creates the
\* ownership, and a re-delivered revoke or renouncement deletes again).
RedeliveryAppliesTheEventAgain ==
    [][last'.redelivered =>
           /\ last'.outcome = "accepted"
           /\ accessEvents' = accessEvents
           /\ MetadataAfterRedelivery(last'.handler, last'.event)
           /\ MembershipAfterRedelivery(last'.handler, last'.event)
           /\ OwnershipAfterRedelivery(last'.handler, last'.event)]_vars

\* C4 witness: a grant was re-delivered after a later revoke of the same
\* triple had been applied, and the membership is there again.
GrantRedeliveredAfterRevoke ==
    /\ last.redelivered
    /\ ~last.again
    /\ last.handler = "handleRoleGranted"
    /\ last.event = RoleGrantedEvent(E1, C1, Minter, G1)
    /\ RoleRevokedEvent(E2, C1, Minter, G1).id \o <<"-", "r", "e", "v", "o", "k", "e", "d">>
           \in DOMAIN accessEvents
    /\ accessEvents[E2 \o <<"-", "r", "e", "v", "o", "k", "e", "d">>].account = Str(G1)
    /\ accessEvents[E2 \o <<"-", "r", "e", "v", "o", "k", "e", "d">>].role = Str(Minter)
    /\ accessEvents[E2 \o <<"-", "r", "e", "v", "o", "k", "e", "d">>].contract = C1
    /\ KeyOfTriple(<<C1, Minter, G1>>) \in DOMAIN roleMemberships
    /\ contracts[C1].lastActivityAt = 1

\* C4 (as stated): re-delivering an already-applied raw event at any later
\* point of the stream reaches the same aggregate state as if it had not
\* been re-delivered.
RedeliveryChangesNothing ==
    [][last'.redelivered => StoreUnchanged]_vars

\* the number of topics of each kind
ExpectedTopics(handler) ==
    CASE handler \in {"handleRoleGranted", "handleRoleRevoked"} -> 3
      [] handler \in {"handleRoleAdminChanged", "handleAdminTransferInitiated",
                      "handleAdminTransferCompleted", "handleAdminRenounced"} -> 2
      [] handler \in {"handleOwnershipTransferStarted",
                      "handleOwnershipTransferCompleted",
                      "handleOwnershipRenounced"} -> 1

PayloadOf(event) == safeScValToNative(event.value)

FieldOf(event, key) == PayloadOf(event).val[key]

\* the address in topic[1] fails to decode or fails isValidStellarAddress
BadTopicAddress(event) == ~isValidStellarAddress(safeScValToNative(Topic(event, 1)))

\* the payload is no map with the keys, or one of the addresses under
\* `addresses` fails isValidStellarAddress
BadPayload(event, keys, addresses) ==
    \/ LacksKeys(PayloadOf(event), keys)
    \/ \E key \in addresses : ~isValidStellarAddress(FieldOf(event, key))

\* a required field of the kind is missing, undecodable or invalid, for an
\* event with the kind's number of topics. The fields are those the source
\* documents for each kind; the previous admin role of role_admin_changed may
\* be the empty string (first-time set).
RequiredFieldInvalid(handler, event) ==
    CASE handler \in {"handleRoleGranted", "handleRoleRevoked"} ->
             \/ ~isValidRoleSymbol(safeScValToNative(Topic(event, 1)))
             \/ ~isValidStellarAddress(safeScValToNative(Topic(event, 2)))
      [] handler = "handleAdminTransferInitiated" ->
             \/ BadTopicAddress(event)
             \/ BadPayload(event, {<<"n", "e", "w", "_", "a", "d", "m", "i", "n">>, <<"l", "i", "v", "e", "_", "u", "n", "t", "i", "l", "_", "l", "e", "d", "g", "e", "r">>}, {<<"n", "e", "w", "_", "a", "d", "m", "i", "n">>})
             \/ FieldOf(event, <<"l", "i", "v", "e", "_", "u", "n", "t", "i", "l", "_", "l", "e", "d", "g", "e", "r">>).typeof # "number"
      [] handler = "handleAdminTransferCompleted" ->
             \/ BadTopicAddress(event)
             \/ BadPayload(event, {<<"p", "r", "e", "v", "i", "o", "u", "s", "_", "a", "d", "m", "i", "n">>}, {<<"p", "r", "e", "v", "i", "o", "u", "s", "_", "a", "d", "m", "i", "n">>})
      [] handler = "handleAdminRenounced" -> BadTopicAddress(event)
      [] handler = "handleRoleAdminChanged" ->
             \/ ~isValidRoleSymbol(safeScValToNative(Topic(event, 1)))
             \/ LacksKeys(PayloadOf(event), {<<"p", "r", "e", "v", "i", "o", "u", "s", "_", "a", "d", "m", "i", "n", "_", "r", "o", "l", "e">>, <<"n", "e", "w", "_", "a", "d", "m", "i", "n", "_", "r", "o", "l", "e">>})
             \/ ~isValidRoleSymbol(FieldOf(event, <<"n", "e", "w", "_", "a", "d", "m", "i", "n", "_", "r", "o", "l", "e">>))
             \/ ~(\/ FieldOf(event, <<"p", "r", "e", "v", "i", "o", "u", "s", "_", "a", "d", "m", "i", "n", "_", "r", "o", "l", "e">>) = Str(<<>>)
                  \/ isValidRoleSymbol(FieldOf(event, <<"p", "r", "e", "v", "i", "o", "u", "s", "_", "a", "d", "m", "i", "n", "_", "r", "o", "l", "e">>)))
      [] handler = "handleOwnershipTransferStarted" ->
             \/ PayloadOf(event).typeof = "array"
             \/ BadPayload(event, {<<"o", "l", "d", "_", "o", "w", "n", "e", "r">>, <<"n", "e", "w", "_", "o", "w", "n", "e", "r">>, <<"l", "i", "v", "e", "_", "u", "n", "t", "i", "l", "_", "l", "e", "d", "g", "e", "r">>},
                           {<<"o", "l", "d", "_", "o", "w", "n", "e", "r">>, <<"n", "e", "w", "_", "o", "w", "n", "e", "r">>})
      [] handler = "handleOwnershipTransferCompleted" ->
             BadPayload(event, {<<"n", "e", "w", "_", "o", "w", "n", "e", "r">>}, {<<"n", "e", "w", "_", "o", "w", "n", "e", "r">>})
      [] handler = "handleOwnershipRenounced" ->
             BadPayload(event, {<<"o", "l", "d", "_", "o", "w", "n", "e", "r">>}, {<<"o", "l", "d", "_", "o", "w", "n", "e", "r">>})

\* C6: in every handler, an event one of whose required fields fails to
\* decode, whose payload map or one of its expected keys is missing, or one
\* of whose required fields fails its validator (isValidStellarAddress for
\* an address, isValidRoleSymbol for an identifier) is declined, and no
\* table is written.
InvalidFieldIsDeclined ==
    [][(/\ last'.event.topic.present
        /\ Len(last'.event.topic.list) = ExpectedTopics(last'.handler)
        /\ RequiredFieldInvalid(last'.handler, last'.event))
       => (last'.outcome = "declined" /\ StoreUnchanged)]_vars

\* C7: whatever the topics, the payload and the envelope of the raw event
\* (topics or payload absent, values that do not decode, a ledger sequence
\* that is a number but no integer), a handler call produces a canonical
\* event or declines: it never throws.
NoHandlerThrows == last.outcome # "threw"

\* C8: the type of a contract's metadata only moves upward: a contract stays
\* in the table, and a step either leaves its type or sets it to
\* ACCESS_CONTROL_OWNABLE; it never goes from ACCESS_CONTROL_OWNABLE back to
\* one capability, nor from one capability straight to the other.
ContractTypeOnlyWidens ==
    [][\A c \in DOMAIN contracts :
           /\ c \in DOMAIN contracts'
           /\ \/ contracts'[c].type = contracts[c].type
              \/ contracts'[c].type = "ACCESS_CONTROL_OWNABLE"]_vars

\* the canonical events of a contract with one of the types
EventsOfContract(c, types) ==
    {id \in DOMAIN accessEvents :
         accessEvents[id].contract = c /\ accessEvents[id].type \in types}

\* C8 witness: C1 was seen with an ownership completion and with a revoke,
\* which made it a combined contract, and a grant accepted after both left
\* it combined.
CombinedContractStaysCombined ==
    /\ steps = 3
    /\ LastAccepted
    /\ ~last.redelivered
    /\ last.handler = "handleRoleGranted"
    /\ ContractOf(last.event) = C1
    /\ EventsOfContract(C1, {"OWNERSHIP_TRANSFER_COMPLETED"}) # {}
    /\ EventsOfContract(C1, {"ROLE_REVOKED"}) # {}
    /\ contracts[C1].type = "ACCESS_CONTROL_OWNABLE"

\* C9: every accepted event of any of the 9 kinds upserts the metadata of
\* its contract: each contract that has a canonical event has a Contract
\* record.
EveryEventContractHasMetadata ==
    \A id \in DOMAIN accessEvents : accessEvents[id].contract \in DOMAIN contracts

\* C10: after an accepted event of any kind, the lastActivityAt of its
\* contract's metadata is that event's ledger close time.
LastActivityIsLastAcceptedCloseTime ==
    LastAccepted =>
        /\ ContractOf(last.event) \in DOMAIN contracts
        /\ contracts[ContractOf(last.event)].lastActivityAt =
               NewDate(last.event.ledgerClosedAt)

\* the canonical event `id` was created for the raw event
CreatedFor(id, event) ==
    /\ Len(id) > Len(event.id)
    /\ SubSeq(id, 1, Len(event.id)) = event.id

\* C11: canonical events are append-only: a handler call deletes no
\* canonical event and leaves every canonical event that was created for
\* another raw event as it is, so the set of stored ids only grows.
CanonicalEventsAppendOnly ==
    [][\A id \in DOMAIN accessEvents :
           /\ id \in DOMAIN accessEvents'
           /\ ~CreatedFor(id, last'.event) => accessEvents'[id] = accessEvents[id]]_vars

\* C11 witness: after a grant and an ownership completion on C1, the
\* ownership was renounced: the record of the ownership is gone and the
\* three canonical events are there.
RenouncedWithFullHistory ==
    /\ steps = 3
    /\ LastAccepted
    /\ last.handler = "handleOwnershipRenounced"
    /\ ContractOf(last.event) = C1
    /\ C1 \notin DOMAIN contractOwnerships
    /\ EventsOfContract(C1, {"OWNERSHIP_TRANSFER_COMPLETED"}) # {}
    /\ EventsOfContract(C1, {"ROLE_GRANTED"}) # {}
    /\ EventsOfContract(C1, {"OWNERSHIP_RENOUNCED"}) # {}
    /\ Cardinality(DOMAIN accessEvents) = 3

\* C14: in every handler, an event (with its topic list) whose contract
\* identifier is absent, cannot be read or fails isValidStellarAddress is
\* declined, with no canonical event and no write, whatever the rest of it.
BadContractIsDeclined ==
    [][(last'.event.topic.present
        /\ (\/ last'.event.contractId.k # "ok"
            \/ ~isValidStellarAddress(Str(last'.event.contractId.addr))))
       => (last'.outcome = "declined" /\ StoreUnchanged)]_vars

\* C14 witness: an ownership completion whose contract identifier throws on
\* reading was declined after a well-formed event had been stored.
ThrowingContractDeclined ==
    /\ last.handler = "handleOwnershipTransferCompleted"
    /\ last.event = WithThrowingContract(OwnershipTransferCompletedEvent(E1, C1))
    /\ last.outcome = "declined"
    /\ accessEvents # EmptyTable

\* C15: a raw event whose ledger is absent, whose ledger sequence is missing
\* or no number, or whose ledger close time is missing is skipped by every
\* handler: no canonical event and no write.
MissingLedgerInfoIsSkipped ==
    [][(\/ ~last'.event.ledger.present
        \/ last'.event.ledger.sequence.typeof # "number"
        \/ last'.event.ledgerClosedAt = Undefined)
       => (last'.outcome = "declined" /\ StoreUnchanged)]_vars

(* ------------------------------------------------------------------ *)
(* A handler call, store operation by store operation                 *)
(* ------------------------------------------------------------------ *)

\* the handler calls of a run of store operations
MaxAwaitedCalls == 2

\* Contract.get and contract.save of updateContractMetadata, one awaited
\* after the other
MetadataStages == <<{"Contract.get"}, {"contract.save"}>>

\* the store operations with the canonical event of a deleting kind saved first
ProgramSavingEventFirst(handler) ==
    CASE handler = "handleRoleGranted" ->
             MetadataStages \o <<{"accessEvent.save", "membership.save"}>>
      [] handler = "handleRoleRevoked" ->
             <<{"accessEvent.save"}, {"store.remove"}>> \o MetadataStages
      [] handler = "handleAdminTransferInitiated" -> <<{"accessEvent.save"}>>
      [] handler = "handleAdminTransferCompleted" ->
             MetadataStages \o <<{"accessEvent.save"}>>
      [] handler = "handleOwnershipTransferStarted" -> <<{"accessEvent.save"}>>
      [] handler = "handleOwnershipTransferCompleted" ->
             MetadataStages \o <<{"accessEvent.save", "ownership.save"}>>
      [] handler = "handleOwnershipRenounced" ->
             <<{"accessEvent.save"}, {"ContractOwnership.remove"}>> \o MetadataStages
      [] handler = "handleAdminRenounced" -> MetadataStages \o <<{"accessEvent.save"}>>
      [] handler = "handleRoleAdminChanged" -> MetadataStages \o <<{"accessEvent.save"}>>

\* the store operations of an accepted event, in the order of the awaits: the
\* operations of one stage are issued together (Promise.all) and the stage
\* is awaited before the next is issued
Program(handler) ==
    CASE handler = "handleRoleGranted" ->
             MetadataStages \o <<{"accessEvent.save", "membership.save"}>>
      [] handler = "handleRoleRevoked" ->
             <<{"store.remove"}>> \o MetadataStages \o <<{"accessEvent.save"}>>
      [] handler = "handleAdminTransferInitiated" -> <<{"accessEvent.save"}>>
      [] handler = "handleAdminTransferCompleted" ->
             MetadataStages \o <<{"accessEvent.save"}>>
      [] handler = "handleOwnershipTransferStarted" -> <<{"accessEvent.save"}>>
      [] handler = "handleOwnershipTransferCompleted" ->
             MetadataStages \o <<{"accessEvent.save", "ownership.save"}>>
      [] handler = "handleOwnershipRenounced" ->
             <<{"ContractOwnership.remove"}>> \o MetadataStages \o <<{"accessEvent.save"}>>
      [] handler = "handleAdminRenounced" -> MetadataStages \o <<{"accessEvent.save"}>>
      [] handler = "handleRoleAdminChanged" -> MetadataStages \o <<{"accessEvent.save"}>>

\* the stages of a call: a declined event returns, and BigInt throws, before
\* the first store operation
StagesOf(c) == IF c.result.outcome = "accepted" THEN Program(c.handler) ELSE <<>>

\* the store after a store operation of the call is carried out: each table
\* is written by one operation of a call
Carried(op, c, st) ==
    CASE op = "Contract.get" -> st
      [] op = "contract.save" -> [st EXCEPT !.contracts = c.result.store.contracts]
      [] op = "accessEvent.save" ->
             [st EXCEPT !.accessEvents = c.result.store.accessEvents]
      [] op \in {"membership.save", "store.remove"} ->
             [st EXCEPT !.roleMemberships = c.result.store.roleMemberships]
      [] op \in {"ownership.save", "ContractOwnership.remove"} ->
             [st EXCEPT !.contractOwnerships = c.result.store.contractOwnerships]

\* the promise settled as soon as the last stage is issued
SettlementWithoutLastAwait(c) ==
    IF c.failed \/ c.result.outcome = "threw" THEN "rejected"
    ELSE IF c.stage > Len(StagesOf(c)) THEN "resolved"
    ELSE "pending"

\* a failed store operation caught and passed over
SettlementSwallowingFailure(c) ==
    IF c.result.outcome = "threw" THEN "rejected"
    ELSE IF c.stage > Len(StagesOf(c)) /\ c.inflight = {} THEN "resolved"
    ELSE "pending"

\* what the promise of the async handler comes to: a throw and a rejected
\* await leave the function (no handler has a try around a store operation),
\* the end of the body is reached after the last await
Settlement(c) ==
    IF c.failed \/ c.result.outcome = "threw" THEN "rejected"
    ELSE IF c.stage > Len(StagesOf(c)) /\ c.inflight = {} THEN "resolved"
    ELSE "pending"

\* the events of the runs of store operations: two well-formed events, one
\* that is declined and one on which BigInt throws
AwaitedEvents(handler) ==
    {WellFormed(handler, E1), WellFormed(handler, E2),
     WithoutContract(WellFormed(handler, E1)),
     WithFractionalSequence(WellFormed(handler, E1))}

\* the host calls a handler when the promise of the call before has resolved
StartCall ==
    \E handler \in Handlers :
        \E event \in AwaitedEvents(handler) :
            /\ call.status \in {"idle", "resolved"}
            /\ steps < MaxAwaitedCalls
            /\ call' = [status |-> "running", handler |-> handler, event |-> event,
                        stage |-> 1, inflight |-> {}, failed |-> FALSE,
                        result |-> Handle(handler, Store, event)]
            /\ steps' = steps + 1
            /\ UNCHANGED <<storeVars, last, lastRoleEvent, lastOwnershipEvent,
                           applied, delivered, probe, comparisonVars>>

\* the handler goes on to its next await and issues the operations of it
IssueStage ==
    /\ call.status = "running"
    /\ Settlement(call) = "pending"
    /\ call.inflight = {}
    /\ call' = [call EXCEPT !.inflight = StagesOf(call)[call.stage],
                            !.stage = call.stage + 1]
    /\ UNCHANGED <<storeVars, historyVars, probe, comparisonVars>>

\* the store carries out an operation in flight
CompleteOperation ==
    \E op \in call.inflight :
        /\ accessEvents' = Carried(op, call, Store).accessEvents
        /\ roleMemberships' = Carried(op, call, Store).roleMemberships
        /\ contractOwnerships' = Carried(op, call, Store).contractOwnerships
        /\ contracts' = Carried(op, call, Store).contracts
        /\ call' = [call EXCEPT !.inflight = call.inflight \ {op}]
        /\ UNCHANGED <<historyVars, probe, comparisonVars>>

\* an operation in flight fails, and leaves the store as it is
FailOperation ==
    \E op \in call.inflight :
        /\ call.status = "running"
        /\ call' = [call EXCEPT !.inflight = call.inflight \ {op}, !.failed = TRUE]
        /\ UNCHANGED <<storeVars, historyVars, probe, comparisonVars>>

ResolvePromise ==
    /\ call.status = "running"
    /\ Settlement(call) = "resolved"
    /\ call' = [call EXCEPT !.status = "resolved"]
    /\ UNCHANGED <<storeVars, historyVars, probe, comparisonVars>>

RejectPromise ==
    /\ call.status = "running"
    /\ Settlement(call) = "rejected"
    /\ call' = [call EXCEPT !.status = "rejected"]
    /\ UNCHANGED <<storeVars, historyVars, probe, comparisonVars>>

AwaitNext ==
    \/ StartCall
    \/ IssueStage
    \/ CompleteOperation
    \/ FailOperation
    \/ ResolvePromise
    \/ RejectPromise

AwaitSpec == Init /\ [][AwaitNext]_vars

(* ------------------------------------------------------------------ *)
(* The validation functions, called on their own                      *)
(* ------------------------------------------------------------------ *)

\* the longest string of which every spelling is tried
MaxProbeLen == 2

\* characters inside and outside the class of the symbol
ProbeChars == {"a", "Z", "0", "9", "_", "-", " ", "."}

RECURSIVE StringsUpTo(_, _)
\* the strings over chars of length n at most
StringsUpTo(chars, n) ==
    IF n = 0 THEN {<<>>}
    ELSE StringsUpTo(chars, n - 1)
         \cup {Append(s, c) : s \in {t \in StringsUpTo(chars, n - 1) : Len(t) = n - 1},
                              c \in chars}

\* c, n times
Repeat(c, n) == [i \in 1..n |-> c]

\* values that are no strings
NonStrings ==
    {Undefined, Null, Num(0), Num(7), Frac(1, 5), Big(7), Arr(<<>>),
     Arr(<<Str(<<"a">>)>>), Obj(EmptyTable), Obj("a" :> Str(<<"a">>))}

\* the inputs of isValidRoleSymbol: no strings, the short strings, and strings
\* around the longest length, of one character or with one other character
\* at either end
RoleSymbolProbes ==
    NonStrings
    \cup {Str(s) : s \in StringsUpTo(ProbeChars, MaxProbeLen)}
    \cup {Str(Repeat(c, n)) : c \in ProbeChars,
                              n \in {MaxSymbolLen - 1, MaxSymbolLen, MaxSymbolLen + 1}}
    \cup {Str(Append(Repeat("a", n), c)) : c \in ProbeChars,
                                           n \in {MaxSymbolLen - 1, MaxSymbolLen}}
    \cup {Str(<<c>> \o Repeat("a", n)) : c \in ProbeChars,
                                         n \in {MaxSymbolLen - 1, MaxSymbolLen}}

\* the longest padding put before or after a key
MaxPadding == 1

\* the characters put in the place of a character of a key, or around a
\* key: the alphabet, and some characters outside it
AddressProbeChars == DOMAIN Base32Index \cup {"a", "g", "c", "0", "1", "8", "9", "=", " "}

\* the keys that are changed
ChangedKeys == {G1, G2, G3, C1, C2}

\* the inputs of isValidStellarAddress: no strings, short strings, the keys
\* of validation.test.ts, a key with one character replaced, a key cut short
\* at either end, and a key padded at either end
AddressProbes ==
    NonStrings
    \cup {Str(s) : s \in StringsUpTo({"G", "C", "S", "g", "1"}, 2)}
    \cup {Str(k) : k \in RunKeys}
    \cup {Str([k EXCEPT ![i] = c]) : k \in ChangedKeys, i \in 1..56, c \in AddressProbeChars}
    \cup {Str(SubSeq(k, 1, n)) : k \in ChangedKeys, n \in 1..55}
    \cup {Str(SubSeq(k, n, 56)) : k \in ChangedKeys, n \in 2..56}
    \cup {Str(k \o pad) : k \in ChangedKeys,
                          pad \in StringsUpTo(AddressProbeChars, MaxPadding)}
    \cup {Str(pad \o k) : k \in ChangedKeys,
                          pad \in StringsUpTo(AddressProbeChars, MaxPadding)}

\* the inputs of safeScValToNative: nothing, something that is no tagged
\* value, tagged values of every kind, maps and vectors of them, and maps
\* and vectors with something undecodable inside
ScValProbes ==
    LET plain == {ScvSymbol(Minter), ScvString(<<"a">>), ScvAddress(G1), ScvU32(7),
                  ScvU64(7), ScvVoid}
        any   == plain \cup {NoScVal, JunkScVal}
        flat  == {ScvVec(<<a>>) : a \in any} \cup {ScvVec(<<a, b>>) : a, b \in any}
                 \cup {ScvMap("k" :> a) : a \in any}
                 \cup {ScvMap(("k" :> a) @@ ("l" :> b)) : a, b \in any}
    IN  any \cup {ScvVec(<<>>), ScvMap(EmptyTable)} \cup flat
        \cup {ScvMap("k" :> a) : a \in {ScvVec(<<b>>) : b \in any}}
        \cup {ScvVec(<<a, ScvU32(7)>>) : a \in {ScvMap("k" :> b) : b \in any}}

\* fn is about to be called on input
Calling(fn, input) == [fn |-> fn, input |-> input, returned |-> FALSE, output |-> <<>>]

\* a validation function is about to be called on one of its inputs
ValidatorInit ==
    /\ accessEvents = EmptyTable
    /\ roleMemberships = EmptyTable
    /\ contractOwnerships = EmptyTable
    /\ contracts = EmptyTable
    /\ last = NoCall
    /\ lastRoleEvent = EmptyTable
    /\ lastOwnershipEvent = EmptyTable
    /\ applied = {}
    /\ delivered = {}
    /\ steps = 0
    /\ call = Idle
    /\ replay = NoReplay
    /\ mirror = NoMirror
    /\ running = NoneRunning
    /\ probe \in {Calling("isValidRoleSymbol", value) : value \in RoleSymbolProbes}
                 \cup {Calling("isValidStellarAddress", value) : value \in AddressProbes}
                 \cup {Calling("safeScValToNative", sv) : sv \in ScValProbes}

\* the call of fn returns output
Returns(fn, output) ==
    /\ probe.fn = fn
    /\ ~probe.returned
    /\ probe' = [probe EXCEPT !.returned = TRUE, !.output = output]
    /\ UNCHANGED <<storeVars, historyVars, call, comparisonVars>>

ProbeRoleSymbol ==
    /\ call.status = "idle"
    /\ Returns("isValidRoleSymbol", isValidRoleSymbol(probe.input))

ProbeStellarAddress ==
    /\ call.status = "idle"
    /\ Returns("isValidStellarAddress", isValidStellarAddress(probe.input))

ProbeSafeScValToNative ==
    /\ call.status = "idle"
    /\ Returns("safeScValToNative", safeScValToNative(probe.input))

ValidatorNext ==
    \/ ProbeRoleSymbol
    \/ ProbeStellarAddress
    \/ ProbeSafeScValToNative

ValidatorSpec == ValidatorInit /\ [][ValidatorNext]_vars

\* the call of fn has returned
Returned(fn) == probe.fn = fn /\ probe.returned

(* ------------------------------------------------------------------ *)
(* Properties of the validation functions                             *)
(* ------------------------------------------------------------------ *)

AsciiLower ==
    {"a", "b", "c", "d", "e", "f", "g", "h", "i", "j", "k", "l", "m",
     "n", "o", "p", "q", "r", "s", "t", "u", "v", "w", "x", "y", "z"}

AsciiUpper ==
    {"A", "B", "C", "D", "E", "F", "G", "H", "I", "J", "K", "L", "M",
     "N", "O", "P", "Q", "R", "S", "T", "U", "V", "W", "X", "Y", "Z"}

AsciiDigit == {"0", "1", "2", "3", "4", "5", "6", "7", "8", "9"}

\* a string of 1 to 32 characters, each a letter, a digit or the underscore
IsSymbolString(value) ==
    /\ value.typeof = "string"
    /\ Len(value.val) \in 1..32
    /\ \A i \in 1..Len(value.val) :
           value.val[i] \in AsciiLower \cup AsciiUpper \cup AsciiDigit \cup {"_"}

\* C17: isValidRoleSymbol returns true exactly on the strings of 1 to 32
\* characters of [A-Za-z0-9_], whatever the first character; the empty
\* string, 33 characters and every value that is no string are rejected.
RoleSymbolValidExactlyOnSymbolStrings ==
    Returned("isValidRoleSymbol") => (probe.output <=> IsSymbolString(probe.input))

\* a symbol of 32 digits was accepted
LongestAllDigitSymbolAccepted ==
    /\ Returned("isValidRoleSymbol")
    /\ probe.output = TRUE
    /\ probe.input.typeof = "string"
    /\ Len(probe.input.val) = 32
    /\ \A i \in 1..32 : probe.input.val[i] \in AsciiDigit

\* the valid keys of validation.test.ts
ValidKeys == {k \in {G1, G2, G3, C1, C2} : isValidStellarAddress(Str(k))}

\* k with the other discriminator character in front
SwappedDiscriminator(k) == <<IF k[1] = "G" THEN "C" ELSE "G">> \o Tail(k)

\* what isValidStellarAddress is to return on a string: false on the empty
\* string and on another first character, the account-key check on a G string,
\* the contract check on a C string
ExpectedOfAddressString(s) ==
    IF s = <<>> THEN FALSE
    ELSE IF s[1] = "G" THEN StrKeyIsValidEd25519PublicKey(s)
    ELSE IF s[1] = "C" THEN StrKeyIsValidContract(s)
    ELSE FALSE

\* C18: isValidStellarAddress returns (a boolean) on every value: false on a
\* value that is no string, on the empty string and on a string that starts
\* with neither G nor C; on a G string what the account-key check says, on a C
\* string what the contract check says; a valid key with its discriminator
\* character swapped is rejected.
AddressCheckedByItsDiscriminator ==
    Returned("isValidStellarAddress") =>
        /\ probe.output \in BOOLEAN
        /\ probe.input.typeof # "string" => probe.output = FALSE
        /\ probe.input.typeof = "string" =>
               /\ probe.output = ExpectedOfAddressString(probe.input.val)
               /\ \A k \in ValidKeys :
                      probe.input.val = SwappedDiscriminator(k) => probe.output = FALSE

\* a valid account key was rejected with C in front, in place of G
SwappedAccountKeyRejected ==
    /\ G1 \in ValidKeys
    /\ Returned("isValidStellarAddress")
    /\ probe.input = Str(SwappedDiscriminator(G1))
    /\ probe.output = FALSE

\* s is k with one character replaced by another
OneCharacterReplaced(k, s) ==
    /\ Len(s) = Len(k)
    /\ Cardinality({i \in 1..Len(k) : s[i] # k[i]}) = 1

\* s is k cut short at its end or at its start
Truncated(k, s) ==
    /\ Len(s) < Len(k)
    /\ \/ s = SubSeq(k, 1, Len(s))
       \/ s = SubSeq(k, Len(k) - Len(s) + 1, Len(k))

\* s is k with characters after it or before it
Padded(k, s) ==
    /\ Len(s) > Len(k)
    /\ \/ k = SubSeq(s, 1, Len(k))
       \/ k = SubSeq(s, Len(s) - Len(k) + 1, Len(s))

\* C19: a valid key with one character replaced by another, a valid key cut
\* short, and a valid key padded are all rejected by isValidStellarAddress.
ChangedKeyIsRejected ==
    (Returned("isValidStellarAddress") /\ probe.input.typeof = "string") =>
        \A k \in ValidKeys :
            (\/ OneCharacterReplaced(k, probe.input.val)
             \/ Truncated(k, probe.input.val)
             \/ Padded(k, probe.input.val))
            => probe.output = FALSE

\* a valid contract identifier was rejected with another character of the
\* alphabet in the middle of its payload
KeyWithChangedPayloadRejected ==
    /\ C1 \in ValidKeys
    /\ Returned("isValidStellarAddress")
    /\ probe.input.typeof = "string"
    /\ OneCharacterReplaced(C1, probe.input.val)
    /\ probe.input.val[30] # C1[30]
    /\ probe.input.val[30] \in DOMAIN Base32Index
    /\ probe.output = FALSE

\* C20: safeScValToNative never throws: on an input that is no decodable
\* tagged value it returns undefined, on a decodable tagged value the native
\* value the decoder returns.
SafeDecodeNeverThrows ==
    Returned("safeScValToNative") =>
        /\ probe.output # Thrown
        /\ Decodable(probe.input) => probe.output = scValToNative(probe.input)
        /\ ~Decodable(probe.input) => probe.output = Undefined

\* a map with a field that cannot be decoded came back as undefined
UndecodableFieldGivesUndefined ==
    /\ Returned("safeScValToNative")
    /\ probe.input.switch = "map"
    /\ \E k \in DOMAIN probe.input.arm : probe.input.arm[k] = JunkScVal
    /\ probe.output = Undefined

(* ------------------------------------------------------------------ *)
(* Properties of a handler call, store operation by store operation   *)
(* ------------------------------------------------------------------ *)

\* C12: when the promise of a handler has resolved, no store operation of the
\* handler is in flight and the store holds the whole effect of the handler
\* (canonical event, membership or ownership change, contract metadata), so
\* the next handler the host starts finds all of it.
ResolvedCallHasWrittenEverything ==
    call.status = "resolved" =>
        /\ call.inflight = {}
        /\ Store = call.result.store

\* the second call of a run has resolved after an accepted grant: the
\* canonical event, the membership and the contract are in the store
SecondGrantResolved ==
    /\ call.status = "resolved"
    /\ steps = 2
    /\ call.handler = "handleRoleGranted"
    /\ call.result.outcome = "accepted"
    /\ DOMAIN roleMemberships # {}
    /\ DOMAIN contracts # {}
    /\ call.event.id \o <<"-", "g", "r", "a", "n", "t", "e", "d">> \in DOMAIN accessEvents

\* C13: no two store operations of one handler are in flight at the same time.
StoreOperationsOneAtATime == Cardinality(call.inflight) <= 1

\* C16: a failed store operation is not swallowed: after it the handler
\* issues no further store operation and its promise does not resolve; the
\* promise can only reject.
FailureIsNotSwallowed ==
    [][call.failed =>
           /\ call'.failed
           /\ call'.stage = call.stage
           /\ call'.status \in {"running", "rejected"}
           /\ (call.status = "running" => Settlement(call) = "rejected")]_vars

\* the promise of handleRoleRevoked rejected after its remove was carried out
\* and the Contract.get of updateContractMetadata failed
RevokeRejectedAfterFailedGet ==
    /\ call.status = "rejected"
    /\ call.failed
    /\ call.handler = "handleRoleRevoked"
    /\ call.stage = 3
    /\ call.inflight = {}

(* ------------------------------------------------------------------ *)
(* The handlers on the shapes of topics and payload                   *)
(* ------------------------------------------------------------------ *)

\* the handler calls of a run over the shapes
MaxShapedEvents == 2

\* the payloads a role_granted / role_revoked is tried with: none, something
\* undecodable, null, a vector, a bare address, maps without the caller, with
\* a caller that is no valid address, with a caller next to an undecodable
\* entry, and with a valid caller
CallerShapes ==
    {NoScVal, JunkScVal, ScvVoid, ScvVec(<<ScvAddress(G3)>>), ScvAddress(G3),
     ScvMap(EmptyTable), Map1(<<"o">>, ScvAddress(G3)),
     Map1(<<"c", "a", "l", "l", "e", "r">>, ScvAddress(BadG)), Map1(<<"c", "a", "l", "l", "e", "r">>, ScvU32(7)),
     Map2(<<"c", "a", "l", "l", "e", "r">>, ScvAddress(G3), <<"o">>, JunkScVal),
     ScvVec(<<ScvAddress(G3), JunkScVal>>),
     Map1(<<"c", "a", "l", "l", "e", "r">>, ScvAddress(G3)), Map1(<<"c", "a", "l", "l", "e", "r">>, ScvAddress(C2))}

\* the topics and payloads a handler is tried with: the well-formed events
\* e1 and e2, and e1 with each of its fields missing, undecodable, of
\* another type, invalid, or carried in the other place
\* two role events whose contract, role and account differ and spell the
\* same `${contract}-${role}-${account}`: the one of C1, x, G-G and the
\* one of C1-x, G, G
WithDashInAccount(e) ==
    WithTopic(WithTopic(e, 1, ScvSymbol(<<"x">>)), 2, ScvAddress(<<"G", "-", "G">>))

WithDashInContract(e) ==
    WithTopic(WithTopic([e EXCEPT !.contractId = [k |-> "ok", addr |-> C1 \o <<"-", "x">>]],
                        1, ScvSymbol(<<"G">>)), 2, ScvAddress(<<"G">>))

RawIdTails ==
    {<<"-", "o", "w", "n", "e", "r", "s", "h", "i", "p">>, <<"-", "a", "d", "m", "i", "n">>}

Shapes(handler) ==
    LET e == WellFormed(handler, E1)
        others ==
            CASE handler \in {"handleRoleGranted", "handleRoleRevoked"} ->
                     {WithValue(e, v) : v \in CallerShapes}
                     \cup {WithDashInAccount(e), WithDashInContract(e), WithTopic(e, 2, ScvAddress(G3))}
              [] handler = "handleAdminTransferInitiated" ->
                     {WithTopic(e, 1, t) : t \in {JunkScVal, ScvAddress(BadG), ScvSymbol(Minter)}}
                     \cup {WithValue(e, v) : v \in
                             {NoScVal, JunkScVal, ScvVec(<<ScvAddress(G1), ScvU32(9)>>),
                              Map1(<<"n", "e", "w", "_", "a", "d", "m", "i", "n">>, ScvAddress(G1)), Map1(<<"l", "i", "v", "e", "_", "u", "n", "t", "i", "l", "_", "l", "e", "d", "g", "e", "r">>, ScvU32(9)),
                              Map2(<<"n", "e", "w", "_", "a", "d", "m", "i", "n">>, JunkScVal, <<"l", "i", "v", "e", "_", "u", "n", "t", "i", "l", "_", "l", "e", "d", "g", "e", "r">>, ScvU32(9))}}
                     \cup {WithValue(e, Map2(<<"n", "e", "w", "_", "a", "d", "m", "i", "n">>, a, <<"l", "i", "v", "e", "_", "u", "n", "t", "i", "l", "_", "l", "e", "d", "g", "e", "r">>, l)) :
                             a \in {ScvAddress(G1), ScvAddress(BadG), ScvU32(7)},
                             l \in {ScvU32(9), ScvU64(9), ScvString(<<"9">>), ScvVoid}}
              [] handler = "handleAdminTransferCompleted" ->
                     {WithValue(e, v) : v \in {NoScVal, Map1(<<"p", "r", "e", "v", "i", "o", "u", "s", "_", "a", "d", "m", "i", "n">>, ScvAddress(BadG))}}
              [] handler = "handleAdminRenounced" ->
                     {WithTopic(e, 1, ScvAddress(BadG)),
                      WithValue(WithOneTopicLess(e), Map1(<<"a", "d", "m", "i", "n">>, ScvAddress(G3))),
                      WithValue(WithOneTopicLess(e), ScvAddress(G3)),
                      WithValue(e, Map1(<<"a", "d", "m", "i", "n">>, ScvAddress(G3)))}
              [] handler = "handleRoleAdminChanged" ->
                     {WithTopic(e, 1, t) : t \in {JunkScVal, ScvSymbol(BadSymbol)}}
                     \cup {WithValue(e, v) : v \in
                             {NoScVal, JunkScVal, Map1(<<"p", "r", "e", "v", "i", "o", "u", "s", "_", "a", "d", "m", "i", "n", "_", "r", "o", "l", "e">>, ScvSymbol(<<>>)),
                              Map1(<<"n", "e", "w", "_", "a", "d", "m", "i", "n", "_", "r", "o", "l", "e">>, ScvSymbol(AdminRole))}}
                     \cup {WithValue(e, Map2(<<"p", "r", "e", "v", "i", "o", "u", "s", "_", "a", "d", "m", "i", "n", "_", "r", "o", "l", "e">>, q, <<"n", "e", "w", "_", "a", "d", "m", "i", "n", "_", "r", "o", "l", "e">>, n)) :
                             q \in {ScvSymbol(<<>>), ScvSymbol(Minter), ScvSymbol(BadSymbol),
                                    ScvString(Repeat("a", MaxSymbolLen + 1)), ScvU32(1),
                                    ScvVoid},
                             n \in {ScvSymbol(AdminRole), ScvSymbol(BadSymbol),
                                    ScvSymbol(<<>>)}}
              [] handler = "handleOwnershipTransferStarted" ->
                     {WithValue(e, v) : v \in
                         {NoScVal, JunkScVal, ScvVoid,
                          ScvVec(<<ScvAddress(G3), ScvAddress(G1), ScvU32(9)>>),
                          Map2(<<"n", "e", "w", "_", "o", "w", "n", "e", "r">>, ScvAddress(G1), <<"l", "i", "v", "e", "_", "u", "n", "t", "i", "l", "_", "l", "e", "d", "g", "e", "r">>, ScvU32(9)),
                          Map2(<<"o", "l", "d", "_", "o", "w", "n", "e", "r">>, ScvAddress(G3), <<"l", "i", "v", "e", "_", "u", "n", "t", "i", "l", "_", "l", "e", "d", "g", "e", "r">>, ScvU32(9)),
                          Map2(<<"o", "l", "d", "_", "o", "w", "n", "e", "r">>, ScvAddress(G3), <<"n", "e", "w", "_", "o", "w", "n", "e", "r">>, ScvAddress(G1)),
                          Map3(<<"o", "l", "d", "_", "o", "w", "n", "e", "r">>, ScvAddress(BadG), <<"n", "e", "w", "_", "o", "w", "n", "e", "r">>, ScvAddress(G1),
                               <<"l", "i", "v", "e", "_", "u", "n", "t", "i", "l", "_", "l", "e", "d", "g", "e", "r">>, ScvU32(9)),
                          Map3(<<"o", "l", "d", "_", "o", "w", "n", "e", "r">>, ScvAddress(G3), <<"n", "e", "w", "_", "o", "w", "n", "e", "r">>, ScvAddress(BadG),
                               <<"l", "i", "v", "e", "_", "u", "n", "t", "i", "l", "_", "l", "e", "d", "g", "e", "r">>, ScvU32(9)),
                          Map3(<<"o", "l", "d", "_", "o", "w", "n", "e", "r">>, ScvAddress(G3), <<"n", "e", "w", "_", "o", "w", "n", "e", "r">>, ScvAddress(G1),
                               <<"l", "i", "v", "e", "_", "u", "n", "t", "i", "l", "_", "l", "e", "d", "g", "e", "r">>, JunkScVal)}}
              [] handler = "handleOwnershipTransferCompleted" ->
                     {WithValue(e, v) : v \in {NoScVal, Map1(<<"n", "e", "w", "_", "o", "w", "n", "e", "r">>, ScvAddress(BadG))}}
              [] handler = "handleOwnershipRenounced" ->
                     {WithValue(e, NoScVal),
                      [WithValue(e, NoScVal) EXCEPT !.topic.list = Append(@, ScvAddress(G1))],
                      [e EXCEPT !.topic.list = Append(@, ScvAddress(G1))],
                      WithValue(e, ScvAddress(G1)),
                      WithValue(e, Map1(<<"o", "l", "d", "_", "o", "w", "n", "e", "r">>, ScvAddress(BadG)))}
    IN  {e, WellFormed(handler, E2)} \cup others
            \cup {WellFormed(handler, E1 \o tail) : tail \in RawIdTails}

DeliverShaped ==
    \E handler \in Handlers :
        \E event \in Shapes(handler) :
            /\ steps < MaxShapedEvents
            /\ Deliver(handler, event)

ShapeSpec == Init /\ [][DeliverShaped]_vars

(* ------------------------------------------------------------------ *)
(* Properties of the handlers on the shapes of topics and payload     *)
(* ------------------------------------------------------------------ *)

\* the envelope of the event is sound: ledger information, an integer
\* sequence, a topic list and a valid contract identifier
SoundEnvelope(event) ==
    /\ hasValidLedgerInfo(event)
    /\ IsInteger(event.ledger.sequence)
    /\ event.topic.present
    /\ event.contractId.k = "ok"
    /\ isValidStellarAddress(Str(event.contractId.addr))

\* the suffix of the canonical event id of each kind
SuffixOf(handler) ==
    CASE handler = "handleRoleGranted" -> <<"-", "g", "r", "a", "n", "t", "e", "d">>
      [] handler = "handleRoleRevoked" -> <<"-", "r", "e", "v", "o", "k", "e", "d">>
      [] handler = "handleAdminTransferInitiated" -> <<"-", "a", "d", "m", "i", "n", "-", "i", "n", "i", "t">>
      [] handler = "handleAdminTransferCompleted" -> <<"-", "a", "d", "m", "i", "n", "-", "c", "o", "m", "p", "l", "e", "t", "e">>
      [] handler = "handleAdminRenounced" -> <<"-", "a", "d", "m", "i", "n", "-", "r", "e", "n", "o", "u", "n", "c", "e", "d">>
      [] handler = "handleRoleAdminChanged" -> <<"-", "r", "o", "l", "e", "-", "a", "d", "m", "i", "n", "-", "c", "h", "a", "n", "g", "e", "d">>
      [] handler = "handleOwnershipTransferStarted" -> <<"-", "o", "w", "n", "e", "r", "s", "h", "i", "p", "-", "s", "t", "a", "r", "t">>
      [] handler = "handleOwnershipTransferCompleted" -> <<"-", "o", "w", "n", "e", "r", "s", "h", "i", "p">>
      [] handler = "handleOwnershipRenounced" -> <<"-", "o", "w", "n", "e", "r", "s", "h", "i", "p", "-", "r", "e", "n", "o", "u", "n", "c", "e", "d">>

\* the id of the canonical event of a call
CanonicalId(handler, event) == event.id \o SuffixOf(handler)

\* the renouncing address is carried in topic[1]
RenouncerInTopic(event) ==
    /\ TopicLength(event) = 2
    /\ isValidStellarAddress(safeScValToNative(Topic(event, 1)))

\* the renouncing address is carried in the payload, under the key of the kind
RenouncerInPayload(handler, event) ==
    /\ TopicLength(event) = 1
    /\ LET key == IF handler = "handleOwnershipRenounced" THEN <<"o", "l", "d", "_", "o", "w", "n", "e", "r">> ELSE <<"a", "d", "m", "i", "n">>
       IN  /\ ~LacksKeys(PayloadOf(event), {key})
           /\ isValidStellarAddress(FieldOf(event, key))

\* C21: handleOwnershipRenounced and handleAdminRenounced accept the
\* renouncing address from topic[1] and from the payload alike: in both cases
\* the canonical event is produced, and handleOwnershipRenounced removes the
\* ownership record of the contract.
RenouncerAcceptedFromEitherPlace ==
    [][(/\ last'.handler \in {"handleOwnershipRenounced", "handleAdminRenounced"}
        /\ SoundEnvelope(last'.event)
        /\ \/ RenouncerInTopic(last'.event)
           \/ RenouncerInPayload(last'.handler, last'.event))
       => (/\ last'.outcome = "accepted"
           /\ CanonicalId(last'.handler, last'.event) \in DOMAIN accessEvents'
           /\ last'.handler = "handleOwnershipRenounced"
                  => last'.event.contractId.addr \notin DOMAIN contractOwnerships')]_vars

\* the topics of a role_granted / role_revoked are valid: a role and an account
ValidRoleTopics(event) ==
    /\ TopicLength(event) = 3
    /\ isValidRoleSymbol(safeScValToNative(Topic(event, 1)))
    /\ isValidStellarAddress(safeScValToNative(Topic(event, 2)))

\* the payload names no caller: it is absent, undecodable, no map, a map
\* without the key caller, or the caller is no valid address
NoUsableCaller(event) ==
    \/ PayloadOf(event).typeof # "object"
    \/ <<"c", "a", "l", "l", "e", "r">> \notin DOMAIN PayloadOf(event).val
    \/ ~isValidStellarAddress(FieldOf(event, <<"c", "a", "l", "l", "e", "r">>))

\* the key of the membership a role_granted / role_revoked is about
MembershipKeyOf(event) ==
    event.contractId.addr \o <<"-">> \o Topic(event, 1).arm \o <<"-">> \o Topic(event, 2).arm

\* C22: a role_granted / role_revoked with valid topics, role, account and
\* contract whose payload names no usable caller (absent, undecodable, no
\* map, no key caller, an invalid caller) is accepted and applied, with the
\* admin of the canonical event and the grantedBy of a granted membership
\* left absent.
CallerIsOptional ==
    [][(/\ last'.handler \in {"handleRoleGranted", "handleRoleRevoked"}
        /\ SoundEnvelope(last'.event)
        /\ ValidRoleTopics(last'.event)
        /\ NoUsableCaller(last'.event))
       => (/\ last'.outcome = "accepted"
           /\ CanonicalId(last'.handler, last'.event) \in DOMAIN accessEvents'
           /\ accessEvents'[CanonicalId(last'.handler, last'.event)].admin = Undefined
           /\ IF last'.handler = "handleRoleGranted"
              THEN /\ MembershipKeyOf(last'.event) \in DOMAIN roleMemberships'
                   /\ roleMemberships'[MembershipKeyOf(last'.event)].grantedBy = Undefined
              ELSE MembershipKeyOf(last'.event) \notin DOMAIN roleMemberships')]_vars

\* a grant whose caller fails the address check was accepted, and its
\* membership has no grantedBy
GrantWithInvalidCallerAccepted ==
    /\ last.handler = "handleRoleGranted"
    /\ last.outcome = "accepted"
    /\ PayloadOf(last.event).typeof = "object"
    /\ <<"c", "a", "l", "l", "e", "r">> \in DOMAIN PayloadOf(last.event).val
    /\ FieldOf(last.event, <<"c", "a", "l", "l", "e", "r">>) = Str(BadG)
    /\ MembershipKeyOf(last.event) \in DOMAIN roleMemberships
    /\ roleMemberships[MembershipKeyOf(last.event)].grantedBy = Undefined

\* C23: every accepted event produces exactly one canonical event, whose id
\* is the raw event id followed by the suffix of its kind. An accepted
\* role_granted with raw id R, contract C, role r, account A and valid caller
\* B produces the canonical event R-granted with type ROLE_GRANTED, role r,
\* account A and admin B, and exactly one RoleMembership, with id C-r-A and
\* grantedBy B.
AcceptedEventProducesOneCanonicalEvent ==
    [][last'.outcome = "accepted" =>
           /\ DOMAIN accessEvents' = DOMAIN accessEvents \cup {CanonicalId(last'.handler, last'.event)}
           /\ \A id \in DOMAIN accessEvents \ {CanonicalId(last'.handler, last'.event)} :
                  accessEvents'[id] = accessEvents[id]
           /\ accessEvents'[CanonicalId(last'.handler, last'.event)].id
                  = CanonicalId(last'.handler, last'.event)
           /\ (last'.handler = "handleRoleGranted" /\ ~NoUsableCaller(last'.event)) =>
                  LET granted == accessEvents'[CanonicalId(last'.handler, last'.event)]
                      key == MembershipKeyOf(last'.event)
                  IN  /\ granted.type = "ROLE_GRANTED"
                      /\ granted.contract = last'.event.contractId.addr
                      /\ granted.role = Str(Topic(last'.event, 1).arm)
                      /\ granted.account = Str(Topic(last'.event, 2).arm)
                      /\ granted.admin = FieldOf(last'.event, <<"c", "a", "l", "l", "e", "r">>)
                      /\ DOMAIN roleMemberships' = DOMAIN roleMemberships \cup {key}
                      /\ \A id \in DOMAIN roleMemberships \ {key} :
                             roleMemberships'[id] = roleMemberships[id]
                      /\ roleMemberships'[key].id = key
                      /\ roleMemberships'[key].contract = last'.event.contractId.addr
                      /\ roleMemberships'[key].role = Topic(last'.event, 1).arm
                      /\ roleMemberships'[key].account = Topic(last'.event, 2).arm
                      /\ roleMemberships'[key].grantedBy = FieldOf(last'.event, <<"c", "a", "l", "l", "e", "r">>)]_vars

\* a grant with caller G3 was accepted next to a membership of another
\* account: the store holds the canonical event e1-granted with admin G3
GrantWithCallerAccepted ==
    /\ last.handler = "handleRoleGranted"
    /\ last.outcome = "accepted"
    /\ last.event.id = E1
    /\ FieldOf(last.event, <<"c", "a", "l", "l", "e", "r">>) = Str(G3)
    /\ E1 \o <<"-", "g", "r", "a", "n", "t", "e", "d">> \in DOMAIN accessEvents
    /\ accessEvents[E1 \o <<"-", "g", "r", "a", "n", "t", "e", "d">>].admin = Str(G3)
    /\ Cardinality(DOMAIN roleMemberships) = 2

\* the types of the canonical events of the role family and of the
\* ownership family
RoleFamily ==
    {"ROLE_GRANTED", "ROLE_REVOKED", "ROLE_ADMIN_CHANGED", "ADMIN_TRANSFER_INITIATED",
     "ADMIN_TRANSFER_COMPLETED", "ADMIN_RENOUNCED"}

OwnershipFamily ==
    {"OWNERSHIP_TRANSFER_STARTED", "OWNERSHIP_TRANSFER_COMPLETED", "OWNERSHIP_RENOUNCED"}

\* the type the metadata of a contract is to have after its accepted events
TypeByFamilies(c) ==
    IF EventsOfContract(c, RoleFamily) # {} /\ EventsOfContract(c, OwnershipFamily) # {}
    THEN "ACCESS_CONTROL_OWNABLE"
    ELSE IF EventsOfContract(c, RoleFamily) # {} THEN "ACCESS_CONTROL"
    ELSE "OWNABLE"

\* C24: after any sequence of accepted events the metadata of a contract has
\* the type ACCESS_CONTROL_OWNABLE as soon as the contract has had an
\* accepted event of the role family and one of the ownership family, and
\* the one capability of the family seen otherwise.
ContractTypeFollowsFamiliesSeen ==
    \A c \in {accessEvents[id].contract : id \in DOMAIN accessEvents} :
        /\ c \in DOMAIN contracts
        /\ contracts[c].type = TypeByFamilies(c)

\* an admin_transfer_initiated that names both admins and a ledger number
ValidTransferInitiation(event) ==
    /\ TopicLength(event) = 2
    /\ isValidStellarAddress(safeScValToNative(Topic(event, 1)))
    /\ ~LacksKeys(PayloadOf(event), {<<"n", "e", "w", "_", "a", "d", "m", "i", "n">>, <<"l", "i", "v", "e", "_", "u", "n", "t", "i", "l", "_", "l", "e", "d", "g", "e", "r">>})
    /\ isValidStellarAddress(FieldOf(event, <<"n", "e", "w", "_", "a", "d", "m", "i", "n">>))
    /\ FieldOf(event, <<"l", "i", "v", "e", "_", "u", "n", "t", "i", "l", "_", "l", "e", "d", "g", "e", "r">>).typeof = "number"

\* the live_until_ledger of the payload is a u64, a string or void, which
\* decode to a bigint, a string and null
LedgerIsNoNumber(event) ==
    /\ event.value.switch = "map"
    /\ <<"l", "i", "v", "e", "_", "u", "n", "t", "i", "l", "_", "l", "e", "d", "g", "e", "r">> \in DOMAIN event.value.arm
    /\ event.value.arm[<<"l", "i", "v", "e", "_", "u", "n", "t", "i", "l", "_", "l", "e", "d", "g", "e", "r">>].switch \in {"u64", "string", "void"}

\* C25: handleAdminTransferInitiated accepts an event only if topic[1] is a
\* valid address, the payload is a map with new_admin and live_until_ledger,
\* new_admin is a valid address and live_until_ledger decodes to a number (a
\* bigint, a string and null are rejected); otherwise it declines and leaves
\* the store as it was. On acceptance its only write is the canonical event.
AdminTransferInitiatedNeedsLedgerNumber ==
    [][last'.handler = "handleAdminTransferInitiated" =>
           /\ last'.outcome = "accepted" =>
                  /\ ValidTransferInitiation(last'.event)
                  /\ DOMAIN accessEvents' = DOMAIN accessEvents \cup {CanonicalId(last'.handler, last'.event)}
                  /\ \A id \in DOMAIN accessEvents \ {CanonicalId(last'.handler, last'.event)} :
                         accessEvents'[id] = accessEvents[id]
                  /\ roleMemberships' = roleMemberships
                  /\ contractOwnerships' = contractOwnerships
                  /\ contracts' = contracts
           /\ (SoundEnvelope(last'.event) /\ ~ValidTransferInitiation(last'.event)) =>
                  /\ last'.outcome = "declined"
                  /\ storeVars' = storeVars
           /\ (SoundEnvelope(last'.event) /\ LedgerIsNoNumber(last'.event)) =>
                  last'.outcome = "declined"]_vars

\* an admin_transfer_initiated with a u32 live_until_ledger was accepted after
\* one whose live_until_ledger is a u64 had been declined: the store holds
\* the canonical event of the second only
TransferInitiationAcceptedAfterBigintDeclined ==
    /\ last.handler = "handleAdminTransferInitiated"
    /\ last.outcome = "accepted"
    /\ last.event.value.arm[<<"l", "i", "v", "e", "_", "u", "n", "t", "i", "l", "_", "l", "e", "d", "g", "e", "r">>] = ScvU32(9)
    /\ DOMAIN accessEvents = {CanonicalId(last.handler, last.event)}
    /\ \E r \in delivered :
           /\ r.handler = "handleAdminTransferInitiated"
           /\ CanonicalId(r.handler, r.event) \notin DOMAIN accessEvents
           /\ LedgerIsNoNumber(r.event)
           /\ r.event.value.arm[<<"l", "i", "v", "e", "_", "u", "n", "t", "i", "l", "_", "l", "e", "d", "g", "e", "r">>].switch = "u64"

\* the previous_admin_role of the payload is the empty string or a valid
\* role symbol
PreviousAdminRoleEmptyOrValid(event) ==
    \/ FieldOf(event, <<"p", "r", "e", "v", "i", "o", "u", "s", "_", "a", "d", "m", "i", "n", "_", "r", "o", "l", "e">>) = Str(<<>>)
    \/ isValidRoleSymbol(FieldOf(event, <<"p", "r", "e", "v", "i", "o", "u", "s", "_", "a", "d", "m", "i", "n", "_", "r", "o", "l", "e">>))

\* C26: handleRoleAdminChanged accepts an event only if the role of topic[1]
\* and new_admin_role pass the role-symbol validator and previous_admin_role
\* is the empty string or passes the role-symbol validator; a non-empty
\* previous_admin_role that fails the validator makes the handler decline.
RoleAdminChangedValidatesBothAdminRoles ==
    [][last'.handler = "handleRoleAdminChanged" =>
           /\ last'.outcome = "accepted" =>
                  /\ isValidRoleSymbol(safeScValToNative(Topic(last'.event, 1)))
                  /\ ~LacksKeys(PayloadOf(last'.event), {<<"p", "r", "e", "v", "i", "o", "u", "s", "_", "a", "d", "m", "i", "n", "_", "r", "o", "l", "e">>, <<"n", "e", "w", "_", "a", "d", "m", "i", "n", "_", "r", "o", "l", "e">>})
                  /\ isValidRoleSymbol(FieldOf(last'.event, <<"n", "e", "w", "_", "a", "d", "m", "i", "n", "_", "r", "o", "l", "e">>))
                  /\ PreviousAdminRoleEmptyOrValid(last'.event)
           /\ (/\ SoundEnvelope(last'.event)
               /\ ~LacksKeys(PayloadOf(last'.event), {<<"p", "r", "e", "v", "i", "o", "u", "s", "_", "a", "d", "m", "i", "n", "_", "r", "o", "l", "e">>, <<"n", "e", "w", "_", "a", "d", "m", "i", "n", "_", "r", "o", "l", "e">>})
               /\ ~PreviousAdminRoleEmptyOrValid(last'.event)) =>
                  /\ last'.outcome = "declined"
                  /\ storeVars' = storeVars]_vars

\* the payload of an ownership_transfer is absent or undecodable, is no map
\* (a vector included), lacks one of its three keys, or names an invalid
\* old or new owner
UnusableOwnershipTransfer(event) ==
    \/ LacksKeys(PayloadOf(event), {<<"o", "l", "d", "_", "o", "w", "n", "e", "r">>, <<"n", "e", "w", "_", "o", "w", "n", "e", "r">>, <<"l", "i", "v", "e", "_", "u", "n", "t", "i", "l", "_", "l", "e", "d", "g", "e", "r">>})
    \/ PayloadOf(event).typeof # "object"
    \/ ~isValidStellarAddress(FieldOf(event, <<"o", "l", "d", "_", "o", "w", "n", "e", "r">>))
    \/ ~isValidStellarAddress(FieldOf(event, <<"n", "e", "w", "_", "o", "w", "n", "e", "r">>))

\* C27: handleOwnershipTransferStarted declines, and writes nothing, when the
\* payload is absent or undecodable, is not a map (a vector included), lacks
\* any of old_owner, new_owner and live_until_ledger, or names an old or new
\* owner that is no valid address.
OwnershipTransferStartedNeedsThreeKeys ==
    [][(/\ last'.handler = "handleOwnershipTransferStarted"
        /\ SoundEnvelope(last'.event)
        /\ UnusableOwnershipTransfer(last'.event))
       => (/\ last'.outcome = "declined"
           /\ storeVars' = storeVars)]_vars

\* a map or vector with an element that cannot be decoded next to one that can
HasUndecodableElement(sv) ==
    /\ sv.switch \in {"map", "vec"}
    /\ \E k \in DOMAIN sv.arm : ~Decodable(sv.arm[k])
    /\ \E k \in DOMAIN sv.arm : Decodable(sv.arm[k])

\* the handlers that read the caller of the payload if there is one
CallerReaders == {"handleRoleGranted", "handleRoleRevoked"}

\* the handlers that decline an event without a payload they can read
PayloadReaders ==
    {"handleAdminTransferInitiated", "handleAdminTransferCompleted", "handleRoleAdminChanged",
     "handleOwnershipTransferStarted", "handleOwnershipTransferCompleted",
     "handleOwnershipRenounced"}

\* C28 as stated: when one element nested in a map or vector payload cannot
\* be decoded, only that element resolves to absent: the siblings that decode
\* are still returned, so a handler still reads an intact sibling field (a
\* valid caller next to an undecodable entry becomes the admin of the
\* canonical event).
UndecodableElementLeavesSiblings ==
    [][HasUndecodableElement(last'.event.value) =>
           /\ PayloadOf(last'.event).typeof \in {"object", "array"}
           /\ \A k \in DOMAIN last'.event.value.arm :
                  PayloadOf(last'.event).val[k]
                      = IF Decodable(last'.event.value.arm[k])
                        THEN scValToNative(last'.event.value.arm[k]) ELSE Undefined
           /\ (/\ last'.handler \in CallerReaders
               /\ last'.outcome = "accepted"
               /\ last'.event.value.switch = "map"
               /\ <<"c", "a", "l", "l", "e", "r">> \in DOMAIN last'.event.value.arm
               /\ isValidStellarAddress(safeScValToNative(last'.event.value.arm[<<"c", "a", "l", "l", "e", "r">>]))) =>
                  accessEvents'[CanonicalId(last'.handler, last'.event)].admin
                      = safeScValToNative(last'.event.value.arm[<<"c", "a", "l", "l", "e", "r">>])]_vars

\* C28, amended: when one element nested in a map or vector payload cannot
\* be decoded, the whole payload resolves to absent: no sibling is returned,
\* so a handler reads no field of that payload. A role_granted / role_revoked
\* is stored without admin, and a handler that needs its payload declines.
UndecodableElementLosesPayload ==
    [][HasUndecodableElement(last'.event.value) =>
           /\ PayloadOf(last'.event) = Undefined
           /\ (last'.handler \in CallerReaders /\ last'.outcome = "accepted") =>
                  accessEvents'[CanonicalId(last'.handler, last'.event)].admin = Undefined
           /\ (last'.handler \in PayloadReaders /\ SoundEnvelope(last'.event)) =>
                  /\ last'.outcome = "declined"
                  /\ storeVars' = storeVars]_vars

\* a grant whose payload holds the valid caller G3 next to an undecodable
\* entry was accepted, and its canonical event has no admin
GrantWithCallerNextToUndecodableEntry ==
    /\ last.handler = "handleRoleGranted"
    /\ last.outcome = "accepted"
    /\ last.event.value.switch = "map"
    /\ HasUndecodableElement(last.event.value)
    /\ last.event.value.arm[<<"c", "a", "l", "l", "e", "r">>] = ScvAddress(G3)
    /\ accessEvents[CanonicalId(last.handler, last.event)].admin = Undefined

\* the two tables agree on every record but the one of the key
SameButAt(old, new, key) ==
    \A id \in (DOMAIN old \cup DOMAIN new) \ {key} :
        /\ id \in DOMAIN old
        /\ id \in DOMAIN new
        /\ new[id] = old[id]

\* the kinds that write no aggregate, those that write a membership and
\* those that write an ownership
EventOnlyHandlers ==
    {"handleRoleAdminChanged", "handleAdminTransferInitiated", "handleAdminTransferCompleted",
     "handleAdminRenounced", "handleOwnershipTransferStarted"}

MembershipHandlers == {"handleRoleGranted", "handleRoleRevoked"}

OwnershipHandlers == {"handleOwnershipTransferCompleted", "handleOwnershipRenounced"}

\* C29: role_admin_changed, admin_transfer_initiated, admin_transfer_completed,
\* admin_renounced and ownership_transfer (started) leave every RoleMembership
\* and ContractOwnership as it is; role_granted / role_revoked leave every
\* ContractOwnership as it is and change at most the RoleMembership of their
\* own contract, role and account; ownership_transfer_completed and
\* ownership_renounced leave every RoleMembership as it is and change at
\* most the ContractOwnership of their own contract.
AggregateEffectsConfinedToTheirKind ==
    [][IF last'.outcome # "accepted" \/ last'.handler \in EventOnlyHandlers
       THEN /\ roleMemberships' = roleMemberships
            /\ contractOwnerships' = contractOwnerships
       ELSE IF last'.handler \in MembershipHandlers
       THEN /\ contractOwnerships' = contractOwnerships
            /\ SameButAt(roleMemberships, roleMemberships', MembershipKeyOf(last'.event))
       ELSE /\ last'.handler \in OwnershipHandlers
            /\ roleMemberships' = roleMemberships
            /\ SameButAt(contractOwnerships, contractOwnerships', last'.event.contractId.addr)]_vars

\* a revoke was accepted and removed the membership a grant had made, while
\* another membership is still in the store
RevokeNextToOtherMembership ==
    /\ last.handler = "handleRoleRevoked"
    /\ last.outcome = "accepted"
    /\ \E r \in applied :
           /\ r.handler = "handleRoleGranted"
           /\ MembershipKeyOf(r.event) = MembershipKeyOf(last.event)
    /\ MembershipKeyOf(last.event) \notin DOMAIN roleMemberships
    /\ roleMemberships # EmptyTable

\* the address the payload of the event carries under the key
PartyInPayload(event, key) == Str(event.value.arm[key].arm)

\* the address of topic[1]
PartyInTopic(event) == Str(Topic(event, 1).arm)

\* C30: the canonical event of a two-party transfer stores the receiving
\* party in account and the giving party in admin: admin_transfer_initiated
\* has account = new_admin and admin = current_admin, admin_transfer_completed
\* has account = new_admin and admin = previous_admin, ownership_transfer
\* (started) has account = new_owner and admin = old_owner, and
\* ownership_transfer_completed has account = new_owner and no admin.
TransferStoresReceiverAndGiver ==
    [][last'.outcome = "accepted" =>
           LET stored == accessEvents'[CanonicalId(last'.handler, last'.event)]
           IN  /\ last'.handler = "handleAdminTransferInitiated" =>
                      /\ stored.type = "ADMIN_TRANSFER_INITIATED"
                      /\ stored.account = PartyInPayload(last'.event, <<"n", "e", "w", "_", "a", "d", "m", "i", "n">>)
                      /\ stored.admin = PartyInTopic(last'.event)
               /\ last'.handler = "handleAdminTransferCompleted" =>
                      /\ stored.type = "ADMIN_TRANSFER_COMPLETED"
                      /\ stored.account = PartyInTopic(last'.event)
                      /\ stored.admin = PartyInPayload(last'.event, <<"p", "r", "e", "v", "i", "o", "u", "s", "_", "a", "d", "m", "i", "n">>)
               /\ last'.handler = "handleOwnershipTransferStarted" =>
                      /\ stored.type = "OWNERSHIP_TRANSFER_STARTED"
                      /\ stored.account = PartyInPayload(last'.event, <<"n", "e", "w", "_", "o", "w", "n", "e", "r">>)
                      /\ stored.admin = PartyInPayload(last'.event, <<"o", "l", "d", "_", "o", "w", "n", "e", "r">>)
               /\ last'.handler = "handleOwnershipTransferCompleted" =>
                      /\ stored.type = "OWNERSHIP_TRANSFER_COMPLETED"
                      /\ stored.account = PartyInPayload(last'.event, <<"n", "e", "w", "_", "o", "w", "n", "e", "r">>)
                      /\ stored.admin = Undefined]_vars

\* an admin transfer was initiated and completed: the store holds both
\* canonical events, each with two different parties
AdminTransferInitiatedAndCompleted ==
    /\ last.handler = "handleAdminTransferCompleted"
    /\ last.outcome = "accepted"
    /\ accessEvents[CanonicalId(last.handler, last.event)].account = PartyInTopic(last.event)
    /\ accessEvents[CanonicalId(last.handler, last.event)].admin
           # accessEvents[CanonicalId(last.handler, last.event)].account
    /\ \E id \in DOMAIN accessEvents :
           /\ accessEvents[id].type = "ADMIN_TRANSFER_INITIATED"
           /\ accessEvents[id].admin # accessEvents[id].account
           /\ accessEvents[id].admin # Undefined

(* ------------------------------------------------------------------ *)
(* A run that is started again from a checkpoint                      *)
(* ------------------------------------------------------------------ *)

\* the handler calls of the run before it is started again
MaxReplayedEvents == 3

\* the events of a run that is replayed: the well-formed events of the kind
\* and one that is declined
ReplayedEvents(handler) ==
    {WithoutContract(WellFormed(handler, E1))} \cup
    CASE handler = "handleRoleGranted" -> RoleGrantedGood
      [] handler = "handleRoleRevoked" -> RoleRevokedGood
      [] handler = "handleAdminTransferInitiated" -> AdminTransferInitiatedGood
      [] handler = "handleAdminTransferCompleted" -> AdminTransferCompletedGood
      [] handler = "handleAdminRenounced" -> AdminRenouncedGood
      [] handler = "handleRoleAdminChanged" -> RoleAdminChangedGood
      [] handler = "handleOwnershipTransferStarted" -> OwnershipTransferStartedGood
      [] handler = "handleOwnershipTransferCompleted" -> OwnershipTransferCompletedGood
      [] handler = "handleOwnershipRenounced" -> OwnershipRenouncedGood

\* the host delivers the next event of the chain, and the run keeps the
\* order of its events
DeliverFirstTime ==
    \E handler \in Handlers :
        \E event \in ReplayedEvents(handler) :
            /\ replay.phase = "first"
            /\ steps < MaxReplayedEvents
            /\ FreshOrSame(handler, event)
            /\ Settle(handler, event, Handle(handler, Store, event))
            /\ replay' = [replay EXCEPT
                              !.log = Append(@, [handler |-> handler, event |-> event])]
            /\ UNCHANGED <<mirror, running>>

\* the indexer is started again from the checkpoint before the k-th event,
\* on the store as the run has left it
RestartFromCheckpoint ==
    \E k \in 1..Len(replay.log) :
        /\ replay.phase = "first"
        /\ replay' = [replay EXCEPT !.phase = "again", !.pos = k, !.once = Store]
        /\ UNCHANGED <<storeVars, historyVars, probe, call, mirror, running>>

\* the host delivers the next event of the suffix again
DeliverAgain ==
    /\ replay.phase = "again"
    /\ replay.pos <= Len(replay.log)
    /\ Settle(replay.log[replay.pos].handler, replay.log[replay.pos].event,
              Handle(replay.log[replay.pos].handler, Store, replay.log[replay.pos].event))
    /\ replay' = [replay EXCEPT !.pos = @ + 1]
    /\ UNCHANGED <<mirror, running>>

ReplayNext ==
    \/ DeliverFirstTime
    \/ RestartFromCheckpoint
    \/ DeliverAgain

ReplaySpec == Init /\ [][ReplayNext]_vars

\* the whole suffix was delivered again
SuffixReplayed == replay.phase = "again" /\ replay.pos > Len(replay.log)

\* C31: replay from a checkpoint is safe when the whole suffix is replayed
\* in order: after e1..en and then ek..en again, the RoleMembership,
\* ContractOwnership, Contract and canonical-event tables are what they
\* were after e1..en.
ReplayOfSuffixReachesSameStore ==
    SuffixReplayed => Store = replay.once

\* a grant, the revoke of its membership and an ownership completion of the
\* same contract were replayed from the revoke on: the membership is absent
\* and the contract is a combined one, as after the first run
RevokeAndOwnershipReplayed ==
    /\ SuffixReplayed
    /\ Len(replay.log) = 3
    /\ steps = 5
    /\ replay.log[1].handler = "handleRoleGranted"
    /\ replay.log[2].handler = "handleRoleRevoked"
    /\ MembershipKeyOf(replay.log[2].event) = MembershipKeyOf(replay.log[1].event)
    /\ replay.log[3].handler = "handleOwnershipTransferCompleted"
    /\ replay.log[3].event.contractId.addr = replay.log[1].event.contractId.addr
    /\ roleMemberships = EmptyTable
    /\ contracts[replay.log[1].event.contractId.addr].type = "ACCESS_CONTROL_OWNABLE"
    /\ Cardinality(DOMAIN accessEvents) = 3

(* ------------------------------------------------------------------ *)
(* Two handler calls under way at once                                *)
(* ------------------------------------------------------------------ *)

\* the handler calls of a run of two calls at once, each call one
MaxConcurrentCalls == 2

\* the events of the two calls: the first call has the event e1 of its kind,
\* the second the event e2, both of contract C1
ConcurrentEvent(p, handler) == WellFormed(handler, IF p = 1 THEN E1 ELSE E2)

\* the record contract.save writes: updateContractMetadata creates it, or
\* widens it, from what its Contract.get has returned
ContractToSave(r, st) ==
    Handle(r.handler, [st EXCEPT !.contracts = r.contract], r.event)
        .store.contracts[r.event.contractId.addr]

\* the store after a store operation of the call r is carried out: a save
\* and a remove are by the id of the one entity
CarriedAlongside(op, r, st) ==
    LET whole == Handle(r.handler, st, r.event).store
        contract == r.event.contractId.addr
    IN  CASE op = "Contract.get" -> st
          [] op = "contract.save" ->
                 [st EXCEPT !.contracts = Save(@, ContractToSave(r, st))]
          [] op = "accessEvent.save" ->
                 [st EXCEPT !.accessEvents =
                                Save(@, whole.accessEvents[CanonicalId(r.handler, r.event)])]
          [] op = "membership.save" ->
                 [st EXCEPT !.roleMemberships =
                                Save(@, whole.roleMemberships[MembershipKeyOf(r.event)])]
          [] op = "store.remove" ->
                 [st EXCEPT !.roleMemberships = Remove(@, MembershipKeyOf(r.event))]
          [] op = "ownership.save" ->
                 [st EXCEPT !.contractOwnerships = Save(@, whole.contractOwnerships[contract])]
          [] op = "ContractOwnership.remove" ->
                 [st EXCEPT !.contractOwnerships = Remove(@, contract)]

\* what the call knows after the operation: Contract.get returns the record
\* of the contract, or nothing
AfterOperation(op, r, st) ==
    LET contract == r.event.contractId.addr
    IN  CASE op = "Contract.get" ->
                 [r EXCEPT !.inflight = @ \ {op},
                           !.read = IF contract \in DOMAIN st.contracts
                                    THEN "found" ELSE "nothing",
                           !.contract = IF contract \in DOMAIN st.contracts
                                        THEN (contract :> st.contracts[contract])
                                        ELSE EmptyTable]
          [] OTHER -> [r EXCEPT !.inflight = @ \ {op}]

\* a handler is called while the other call may be under way
StartAlongside ==
    \E p \in {1, 2} :
        \E handler \in Handlers :
            /\ running[p].status = "idle"
            /\ steps < MaxConcurrentCalls
            /\ running' = [running EXCEPT ![p] =
                   [@ EXCEPT !.status = "running", !.handler = handler,
                             !.event = ConcurrentEvent(p, handler)]]
            /\ steps' = steps + 1
            /\ UNCHANGED <<storeVars, last, lastRoleEvent, lastOwnershipEvent, applied,
                           delivered, probe, call, replay, mirror>>

\* a call goes on to its next await and issues the operations of it
IssueAlongside ==
    \E p \in {1, 2} :
        /\ running[p].status = "running"
        /\ running[p].inflight = {}
        /\ running[p].stage <= Len(Program(running[p].handler))
        /\ running' = [running EXCEPT ![p] =
               [@ EXCEPT !.inflight = Program(running[p].handler)[running[p].stage],
                         !.stage = @ + 1]]
        /\ UNCHANGED <<storeVars, historyVars, probe, call, replay, mirror>>

\* the store carries out an operation in flight of one of the calls
CompleteAlongside ==
    \E p \in {1, 2} :
        \E op \in running[p].inflight :
            /\ accessEvents' = CarriedAlongside(op, running[p], Store).accessEvents
            /\ roleMemberships' = CarriedAlongside(op, running[p], Store).roleMemberships
            /\ contractOwnerships' = CarriedAlongside(op, running[p], Store).contractOwnerships
            /\ contracts' = CarriedAlongside(op, running[p], Store).contracts
            /\ running' = [running EXCEPT ![p] = AfterOperation(op, running[p], Store)]
            /\ UNCHANGED <<historyVars, probe, call, replay, mirror>>

\* the end of the body is reached after the last await
ResolveAlongside ==
    \E p \in {1, 2} :
        /\ running[p].status = "running"
        /\ running[p].inflight = {}
        /\ running[p].stage > Len(Program(running[p].handler))
        /\ running' = [running EXCEPT ![p] = [@ EXCEPT !.status = "resolved"]]
        /\ UNCHANGED <<storeVars, historyVars, probe, call, replay, mirror>>

ConcurrentNext ==
    \/ StartAlongside
    \/ IssueAlongside
    \/ CompleteAlongside
    \/ ResolveAlongside

ConcurrentSpec == Init /\ [][ConcurrentNext]_vars

\* both calls have come to their end
BothResolved == \A p \in {1, 2} : running[p].status = "resolved"

\* both calls have read the record of the contract before either has saved
\* it: each Contract.get has returned nothing
BothReadBeforeEitherSaved == \A p \in {1, 2} : running[p].read = "nothing"

\* one call is of the role family, the other of the ownership family
OneOfEachFamily ==
    \E p, q \in {1, 2} :
        /\ running[p].handler \in
               {"handleRoleGranted", "handleRoleRevoked", "handleRoleAdminChanged",
                "handleAdminTransferInitiated", "handleAdminTransferCompleted",
                "handleAdminRenounced"}
        /\ running[q].handler \in
               {"handleOwnershipTransferStarted", "handleOwnershipTransferCompleted",
                "handleOwnershipRenounced"}

\* C32: when a role-family handler and an ownership-family handler of the
\* same contract, not seen before, run at once and both read Contract.get
\* before either saves, the type of the contract after both have completed
\* is ACCESS_CONTROL_OWNABLE.
InterleavedMetadataUpdateWidens ==
    (BothResolved /\ OneOfEachFamily /\ BothReadBeforeEitherSaved)
        => /\ C1 \in DOMAIN contracts
           /\ contracts[C1].type = "ACCESS_CONTROL_OWNABLE"

\* the time value of the close time of the ledger of a raw event
CloseTimeValue(id) == DigitValue(CloseTimeOf(id)[2])

\* the close times of the ledgers of the run
LedgerCloseTimes == {CloseTimeValue(id) : id \in RawIds}

\* every time in the store is the close time of a ledger of the run, and
\* the time of a canonical event is the close time of its raw event
TimesAreLedgerCloseTimes ==
    /\ \A id \in DOMAIN accessEvents :
           accessEvents[id].timestamp = CloseTimeValue(SubSeq(id, 1, 2))
    /\ \A id \in DOMAIN roleMemberships : roleMemberships[id].grantedAt \in LedgerCloseTimes
    /\ \A id \in DOMAIN contractOwnerships :
           contractOwnerships[id].transferredAt \in LedgerCloseTimes
    /\ \A id \in DOMAIN contracts : contracts[id].lastActivityAt \in LedgerCloseTimes

\* the two operations a call has issued together come to the same store in
\* either order, and to the store of the whole handler
EitherOrderSameStore ==
    \A a, b \in call.inflight :
        a # b =>
            /\ CarriedAlongside(a, call, CarriedAlongside(b, call, Store))
                   = CarriedAlongside(b, call, CarriedAlongside(a, call, Store))
            /\ CarriedAlongside(a, call, CarriedAlongside(b, call, Store)) = call.result.store

\* C33: indexing is deterministic: the same raw events from the same store
\* end in the same store whatever order the two saves that handleRoleGranted
\* and handleOwnershipTransferCompleted issue together complete in, and no
\* stored field depends on the clock: every time in the store is the close
\* time of the ledger of an event.
IndexingIsDeterministic ==
    /\ EitherOrderSameStore
    /\ TimesAreLedgerCloseTimes

\* the membership of a grant was saved before its canonical event, which is
\* still in flight
MembershipSavedBeforeItsEvent ==
    /\ call.status = "running"
    /\ call.handler = "handleRoleGranted"
    /\ call.inflight = {"accessEvent.save"}
    /\ MembershipKeyOf(call.event) \in DOMAIN roleMemberships
    /\ roleMemberships[MembershipKeyOf(call.event)].grantedAt
           = CloseTimeValue(call.event.id)
    /\ CanonicalId(call.handler, call.event) \notin DOMAIN accessEvents

(* ------------------------------------------------------------------ *)
(* Two runs of the same events, two neighbours exchanged              *)
(* ------------------------------------------------------------------ *)

\* the handler calls of a run of which the last two are exchanged
MaxCommutedEvents == 3

\* no event is held back, and none were exchanged
InStep == mirror.held = <<>> /\ mirror.exchanged = <<>>

\* both runs handle the event
DeliverToBoth ==
    \E handler \in Handlers :
        \E event \in ReplayedEvents(handler) :
            /\ InStep
            /\ steps < MaxCommutedEvents - 2
            /\ FreshOrSame(handler, event)
            /\ Settle(handler, event, Handle(handler, Store, event))
            /\ mirror' = [mirror EXCEPT !.store = Handle(handler, @, event).store]
            /\ UNCHANGED <<replay, running>>

\* the first run handles the event, the second run gets it one event later
DeliverAhead ==
    \E handler \in Handlers :
        \E event \in ReplayedEvents(handler) :
            /\ InStep
            /\ steps < MaxCommutedEvents - 1
            /\ FreshOrSame(handler, event)
            /\ Settle(handler, event, Handle(handler, Store, event))
            /\ mirror' = [mirror EXCEPT !.held = <<[handler |-> handler, event |-> event]>>]
            /\ UNCHANGED <<replay, running>>

\* the first run handles the next event; the second run handles it before
\* the event it was still to get
DeliverBehind ==
    \E handler \in Handlers :
        \E event \in ReplayedEvents(handler) :
            /\ mirror.held # <<>>
            /\ FreshOrSame(handler, event)
            /\ Settle(handler, event, Handle(handler, Store, event))
            /\ mirror' = [store |-> Handle(mirror.held[1].handler,
                                           Handle(handler, mirror.store, event).store,
                                           mirror.held[1].event).store,
                          held |-> <<>>,
                          exchanged |-> <<mirror.held[1],
                                          [handler |-> handler, event |-> event]>>]
            /\ UNCHANGED <<replay, running>>

CommuteNext ==
    \/ DeliverToBoth
    \/ DeliverAhead
    \/ DeliverBehind

CommuteSpec == Init /\ [][CommuteNext]_vars

\* the call is of an accepted event (no handler reads the store to decide)
IsAccepted(c) == Handle(c.handler, EmptyStore, c.event).outcome = "accepted"

\* the two calls are about different aggregate keys: grants or revokes of
\* different triples, ownership events of different contracts, or one of
\* each
DifferentAggregateKeys(a, b) ==
    \/ /\ a.handler \in MembershipHandlers
       /\ b.handler \in MembershipHandlers
       /\ TripleOf(a.event) # TripleOf(b.event)
    \/ /\ a.handler \in OwnershipHandlers
       /\ b.handler \in OwnershipHandlers
       /\ a.event.contractId.addr # b.event.contractId.addr
    \/ a.handler \in MembershipHandlers /\ b.handler \in OwnershipHandlers
    \/ a.handler \in OwnershipHandlers /\ b.handler \in MembershipHandlers

\* a grant and a revoke of the same triple
GrantAndRevokeOfOneTriple(a, b) ==
    /\ {a.handler, b.handler} = MembershipHandlers
    /\ TripleOf(a.event) = TripleOf(b.event)

\* the two runs have the same memberships and ownerships
SameAggregates ==
    /\ roleMemberships = mirror.store.roleMemberships
    /\ contractOwnerships = mirror.store.contractOwnerships

\* C34: two accepted events of different aggregate keys (grants or revokes
\* of different triples, ownership events of different contracts, one role
\* event and one ownership event) give the same RoleMembership and
\* ContractOwnership tables in either order; a role_granted and a
\* role_revoked of the same triple do not.
DifferentKeysCommute ==
    (mirror.exchanged # <<>> /\ IsAccepted(mirror.exchanged[1]) /\ IsAccepted(mirror.exchanged[2]))
        => /\ DifferentAggregateKeys(mirror.exchanged[1], mirror.exchanged[2]) => SameAggregates
           /\ GrantAndRevokeOfOneTriple(mirror.exchanged[1], mirror.exchanged[2])
                  => roleMemberships # mirror.store.roleMemberships

\* after a grant to G2, a grant to G1 and the revoke of G2 were handled in
\* both orders: both runs hold the membership of G1 alone
GrantAndOtherRevokeExchanged ==
    /\ steps = 3
    /\ mirror.exchanged # <<>>
    /\ mirror.exchanged[1].handler = "handleRoleGranted"
    /\ mirror.exchanged[2].handler = "handleRoleRevoked"
    /\ IsAccepted(mirror.exchanged[1])
    /\ IsAccepted(mirror.exchanged[2])
    /\ TripleOf(mirror.exchanged[1].event) # TripleOf(mirror.exchanged[2].event)
    /\ DOMAIN roleMemberships = {MembershipKeyOf(mirror.exchanged[1].event)}
    /\ MembershipKeyOf(mirror.exchanged[2].event) \in
           {accessEvents[id].contract \o <<"-">> \o accessEvents[id].role.val \o <<"-">>
                \o accessEvents[id].account.val :
                id \in {i \in DOMAIN accessEvents : accessEvents[i].type = "ROLE_GRANTED"}}
    /\ SameAggregates

(***************************************************************************)
(* Canonical event ids.  Every handler builds the id of its canonical      *)
(* event as `${event.id}-<kind>`.                                          *)
(***************************************************************************)
EventTypeOf(handler) ==
    CASE handler = "handleRoleGranted" -> "ROLE_GRANTED"
      [] handler = "handleRoleRevoked" -> "ROLE_REVOKED"
      [] handler = "handleAdminTransferInitiated" -> "ADMIN_TRANSFER_INITIATED"
      [] handler = "handleAdminTransferCompleted" -> "ADMIN_TRANSFER_COMPLETED"
      [] handler = "handleAdminRenounced" -> "ADMIN_RENOUNCED"
      [] handler = "handleRoleAdminChanged" -> "ROLE_ADMIN_CHANGED"
      [] handler = "handleOwnershipTransferStarted" -> "OWNERSHIP_TRANSFER_STARTED"
      [] handler = "handleOwnershipTransferCompleted" -> "OWNERSHIP_TRANSFER_COMPLETED"
      [] handler = "handleOwnershipRenounced" -> "OWNERSHIP_RENOUNCED"

AcceptedPairs == {<<a.event.id, a.handler>> : a \in applied}

StoredWithType(handler) == {id \in DOMAIN accessEvents : accessEvents[id].type = EventTypeOf(handler)}

\* C35: two accepted events that differ in raw event id or in kind never
\* share a canonical id: the store holds one canonical event for each
\* accepted (raw event id, kind) pair, and for each kind as many events of
\* its type as raw event ids were accepted for it.
CanonicalIdsNeverCollide ==
    /\ Cardinality(DOMAIN accessEvents) = Cardinality(AcceptedPairs)
    /\ \A handler \in Handlers :
           Cardinality(StoredWithType(handler))
               = Cardinality({pair \in AcceptedPairs : pair[2] = handler})

RenouncedKindsOnNestedRawIds ==
    /\ \E a \in applied : a.handler = "handleOwnershipRenounced" /\ a.event.id = E1
    /\ \E a \in applied : /\ a.handler = "handleAdminRenounced"
                          /\ a.event.id = E1 \o <<"-", "o", "w", "n", "e", "r", "s", "h", "i", "p">>
    /\ Cardinality(DOMAIN accessEvents) = 2

(***************************************************************************)
(* Membership keys.                                                        *)
(***************************************************************************)
HasDash(s) == \E i \in 1..Len(s) : s[i] = "-"

StoredTriples == {<<roleMemberships[id].contract, roleMemberships[id].role, roleMemberships[id].account>> : id \in DOMAIN roleMemberships}

GrantedTriples == {t \in DOMAIN lastRoleEvent : lastRoleEvent[t].handler = "handleRoleGranted"}

\* C36: every stored RoleMembership has a contract and an account that
\* pass isValidStellarAddress and a role that passes isValidRoleSymbol, none
\* of them holds a '-', and it is stored under
\* `${contract}-${role}-${account}`; the stored memberships are those of
\* the (contract, role, account) triples whose last accepted role event is
\* a grant, so no grant or revoke of one triple created, overwrote or
\* deleted the membership of another.
MembershipKeysAreUnambiguous ==
    /\ \A id \in DOMAIN roleMemberships :
           LET m == roleMemberships[id] IN
           /\ isValidStellarAddress(Str(m.contract))
           /\ isValidStellarAddress(Str(m.account))
           /\ isValidRoleSymbol(Str(m.role))
           /\ ~HasDash(m.contract) /\ ~HasDash(m.role) /\ ~HasDash(m.account)
           /\ id = m.contract \o <<"-">> \o m.role \o <<"-">> \o m.account
    /\ StoredTriples = GrantedTriples
    /\ Cardinality(DOMAIN roleMemberships) = Cardinality(GrantedTriples)

TwoMembershipsOfDifferentTriples ==
    /\ Cardinality(DOMAIN roleMemberships) = 2
    /\ Cardinality(StoredTriples) = 2
    /\ \A r \in applied : r.handler = "handleRoleGranted"

(***************************************************************************)
(* The order of the writes of role_revoked and ownership_renounced.        *)
(***************************************************************************)
DeletingHandlers == {"handleRoleRevoked", "handleOwnershipRenounced"}

\* the step carries out the accessEvent.save of the running call
EventSaveCarriedOut ==
    /\ "accessEvent.save" \in call.inflight
    /\ "accessEvent.save" \notin call'.inflight
    /\ call'.failed = call.failed

\* the aggregate of the running call is in none of the two stores
AggregateAbsent(memberships, ownerships) ==
    IF call.handler = "handleRoleRevoked"
    THEN MembershipKeyOf(call.event) \notin DOMAIN memberships
    ELSE call.event.contractId.addr \notin DOMAIN ownerships

\* C37: when the canonical event of a role_revoked or ownership_renounced
\* is written, the delete of its aggregate has been applied: the aggregate
\* is absent before and after the write, and after a failed store operation
\* of the call the canonical event is not written.
CanonicalEventFollowsItsDelete ==
    [][(call.handler \in DeletingHandlers /\ EventSaveCarriedOut)
           => /\ ~call.failed
              /\ AggregateAbsent(roleMemberships, contractOwnerships)
              /\ AggregateAbsent(roleMemberships', contractOwnerships')]_vars

RevokeRecordedAfterRemovingGrantedMembership ==
    /\ call.handler = "handleRoleRevoked"
    /\ call.status = "resolved"
    /\ call.event.id \o <<"-", "r", "e", "v", "o", "k", "e", "d">> \in DOMAIN accessEvents
    /\ \E id \in DOMAIN accessEvents : accessEvents[id].type = "ROLE_GRANTED"
    /\ MembershipKeyOf(call.event) \notin DOMAIN roleMemberships

(***************************************************************************)
(* The removals of ownership_renounced and role_revoked.                   *)
(***************************************************************************)
\* C38: an accepted ownership_renounced leaves no ContractOwnership of its
\* contract, whoever the recorded owner was, and an accepted role_revoked
\* leaves no RoleMembership of its contract, role and account; either is
\* accepted as it is on an empty store, record or no record, and its
\* canonical event is stored.
RemovalsAreUnconditional ==
    [][last'.handler \in DeletingHandlers
           => /\ last'.outcome = Handle(last'.handler, EmptyStore, last'.event).outcome
              /\ last'.outcome = "accepted"
                    => /\ CanonicalId(last'.handler, last'.event) \in DOMAIN accessEvents'
                       /\ accessEvents'[CanonicalId(last'.handler, last'.event)].type
                              = EventTypeOf(last'.handler)
                       /\ IF last'.handler = "handleOwnershipRenounced"
                          THEN last'.event.contractId.addr \notin DOMAIN contractOwnerships'
                          ELSE MembershipKeyOf(last'.event) \notin DOMAIN roleMemberships']_vars

RenouncedByOtherThanRecordedOwnerAfterBareRevoke ==
    /\ last.handler = "handleOwnershipRenounced"
    /\ last.outcome = "accepted"
    /\ applied = {[handler |-> "handleRoleRevoked", event |-> RoleRevokedEvent(E1, C1, Minter, G1)],
                  [handler |-> "handleOwnershipTransferCompleted", event |-> OwnershipTransferCompletedEvent(E2, C1)],
                  [handler |-> "handleOwnershipRenounced", event |-> OwnershipRenouncedEvent(E1, C1)]}
    /\ C1 \notin DOMAIN contractOwnerships
    /\ Cardinality(DOMAIN accessEvents) = 3


====
